---- MODULE Spec2Model ----
(***************************************************************************)
(* Model of the PDF extraction service (backend/).  A request names a list *)
(* of models; the handler runs one extraction per model over the uploaded  *)
(* document and answers with one result per model.  Python strings that    *)
(* the code inspects (block text, markdown) are sequences of one-character *)
(* strings; confidences are integers in hundredths (0.85 is 85); an        *)
(* average is the exact fraction num/den.                                  *)
(***************************************************************************)
EXTENDS Integers, Sequences, FiniteSets, TLC

VARIABLES
    pc,            \* "idle" | "received" | "loop" | "responded": position of the handler
    app,           \* which service handles the request
    upload,        \* what the request's upload_id refers to
    models,        \* request.models
    doc,           \* the uploaded document as the PDF engine presents it
    env,           \* what the collaborators outside the core do during the request
    idx,           \* index (1-based) of the next model of the for-loop
    results,       \* the handler's results dict: model name -> entry
    response,      \* the HTTP response
    initialized,   \* the `initialized` flag of each module-level pipeline singleton
    served,        \* number of requests answered so far
    call           \* the helper function under direct call: its argument, its outcome

vars == <<pc, app, upload, models, doc, env, idx, results, response, initialized, served,
          call>>

\* Python's None; an attribute an object may lack is a field a record may lack
None == [none |-> TRUE]

HasAttr(obj, name) == name \in DOMAIN obj

-----------------------------------------------------------------------------
(* Bounds of the model *)

MaxPages == 2
MaxModels == 2
MaxRequests == 2

-----------------------------------------------------------------------------
(* Python str operations on sequences of characters *)

Whitespace == {" ", "\n", "\t"}

RECURSIVE LStrip(_)
LStrip(s) == IF s = <<>> THEN s
             ELSE IF Head(s) \in Whitespace THEN LStrip(Tail(s)) ELSE s

RECURSIVE RStrip(_)
RStrip(s) == IF s = <<>> THEN s
             ELSE IF s[Len(s)] \in Whitespace THEN RStrip(SubSeq(s, 1, Len(s) - 1)) ELSE s

Strip(s) == RStrip(LStrip(s))

StartsWith(s, p) == Len(s) >= Len(p) /\ SubSeq(s, 1, Len(p)) = p

\* sub in s (t is the value of s, computed once)
Contains(s, sub) ==
    \E t \in {s} : \E i \in 1..(Len(t) - Len(sub) + 1) : SubSeq(t, i, i + Len(sub) - 1) = sub

UpperCase == <<"A", "B", "C", "D", "E", "F", "G", "H", "I", "J", "K", "L", "M",
               "N", "O", "P", "Q", "R", "S", "T", "U", "V", "W", "X", "Y", "Z">>
LowerCase == <<"a", "b", "c", "d", "e", "f", "g", "h", "i", "j", "k", "l", "m",
               "n", "o", "p", "q", "r", "s", "t", "u", "v", "w", "x", "y", "z">>

LowerChar(c) == IF \E i \in 1..Len(UpperCase) : UpperCase[i] = c
                THEN LowerCase[CHOOSE i \in 1..Len(UpperCase) : UpperCase[i] = c]
                ELSE c

Lower(s) == [i \in 1..Len(s) |-> LowerChar(s[i])]

DigitChar(d) == <<"0", "1", "2", "3", "4", "5", "6", "7", "8", "9">>[d + 1]

RECURSIVE IntToStr(_)
IntToStr(n) == IF n < 10 THEN <<DigitChar(n)>>
               ELSE IntToStr(n \div 10) \o <<DigitChar(n % 10)>>

RECURSIVE Concat(_)
Concat(ss) == IF ss = <<>> THEN <<>> ELSE Head(ss) \o Concat(Tail(ss))

RECURSIVE Join(_, _)
Join(sep, ss) == IF ss = <<>> THEN <<>>
                 ELSE IF Len(ss) = 1 THEN ss[1]
                 ELSE ss[1] \o sep \o Join(sep, Tail(ss))

RECURSIVE SplitLines(_, _)
SplitLines(s, cur) ==
    IF s = <<>> THEN <<cur>>
    ELSE IF Head(s) = "\n" THEN <<cur>> \o SplitLines(Tail(s), <<>>)
    ELSE SplitLines(Tail(s), Append(cur, Head(s)))

Lines(s) == SplitLines(s, <<>>)

NL == <<"\n">>
NLNL == <<"\n", "\n">>

RECURSIVE SumSeq(_)
SumSeq(ns) == IF ns = <<>> THEN 0 ELSE Head(ns) + SumSeq(Tail(ns))

-----------------------------------------------------------------------------
(* The document as the PDF engine (PyMuPDF) presents it: the inputs of the   *)
(* core.  A block is page.get_text("dict")["blocks"][i]; a table is an entry *)
(* of page.find_tables(); an image an entry of page.get_images().            *)

T_Blank == <<" ">>
T_Page2 == <<"P", "a", "g", "e", " ", "2">>
T_Q == <<"Q">>
T_x == <<"x">>
\* a text of exactly 50 characters: not "len < 50" in the classifiers and not
\* "len(page_text.strip()) < 50" in the scanned-page test
T_Long == [i \in 1..50 |-> "x"]

Span(t, sz) == [text |-> t, size |-> sz]

B_Image == [haslines |-> FALSE, bbox |-> <<72, 100, 300, 200>>, lines |-> <<>>]
B_Blank == [haslines |-> TRUE, bbox |-> <<72, 40, 300, 60>>,
            lines |-> << <<Span(T_Blank, 12)>> >>]
B_Top   == [haslines |-> TRUE, bbox |-> <<72, 50, 300, 70>>,
            lines |-> << <<Span(T_Page2, 12)>> >>]
B_Mid   == [haslines |-> TRUE, bbox |-> <<72, 300, 300, 320>>,
            lines |-> << <<Span(T_Page2, 12)>> >>]
B_Long  == [haslines |-> TRUE, bbox |-> <<72, 400, 540, 420>>,
            lines |-> << <<Span(T_Long, 12)>> >>]
B_Two   == [haslines |-> TRUE, bbox |-> <<72, 500, 300, 520>>,
            lines |-> << <<Span(T_Q, 22), Span(T_x, 12)>> >>]

B_Big   == [haslines |-> TRUE, bbox |-> <<72, 300, 300, 330>>,
            lines |-> << <<Span(T_Q, 22)>> >>]

\* a citation, a formula and an academic section heading
T_Cite == <<"[", "1", "2", "]">>
T_Formula == <<"$", "x", "$">>
T_Abstract == <<"A", "b", "s", "t", "r", "a", "c", "t">>

B_Cite    == [haslines |-> TRUE, bbox |-> <<72, 340, 300, 360>>,
              lines |-> << <<Span(T_Cite, 12)>> >>]
B_Formula == [haslines |-> TRUE, bbox |-> <<72, 360, 300, 380>>,
              lines |-> << <<Span(T_Formula, 12)>> >>]
B_Section == [haslines |-> TRUE, bbox |-> <<72, 380, 300, 400>>,
              lines |-> << <<Span(T_Abstract, 12)>> >>]

\* a citation bracket holding an open range
T_OpenRange == <<"[", "3", "-", "]">>
B_OpenRange == [haslines |-> TRUE, bbox |-> <<72, 420, 300, 440>>,
                lines |-> << <<Span(T_OpenRange, 12)>> >>]

BlockSet == {B_Image, B_Blank, B_Top, B_Mid, B_Long, B_Two, B_Big,
             B_Cite, B_Formula, B_Section, B_OpenRange}

Grid == << << <<"a">>, <<"b">> >>, << <<"1">>, <<"2">> >> >>

\* table.extract() / table.to_pandas(): "ok" returns the grid, "empty" returns an
\* empty grid, "raise" raises
Table(o) == [outcome |-> o, bbox |-> <<72, 600, 540, 700>>,
             data |-> IF o = "ok" THEN Grid ELSE <<>>]
TableSet == {Table("ok"), Table("empty"), Table("raise")}

\* fitz.Pixmap(doc, xref): raises, or a pixmap of width x height pixels with n
\* colour components (alpha 0)
Image(w, h, n, r) == [width |-> w, height |-> h, n |-> n, raises |-> r]
ImageSet == {Image(30, 40, 3, FALSE), Image(200, 300, 3, FALSE),
             Image(200, 300, 4, FALSE), Image(200, 300, 3, TRUE),
             Image(700, 900, 3, FALSE)}

SeqsUpTo(S, n) == UNION {[1..k -> S] : k \in 0..n}

MaxBlocks == 2
MaxTables == 2
MaxImages == 2

NoTables == [raises |-> FALSE, list |-> <<>>]
NoImages == [raises |-> FALSE, list |-> <<>>]

Page(bs, ts, is) == [blocks |-> bs, tables |-> ts, images |-> is,
                     width |-> 600, height |-> 800]

TableLists == {[raises |-> TRUE, list |-> <<>>]} \cup
              {[raises |-> FALSE, list |-> l] : l \in SeqsUpTo(TableSet, MaxTables)}
ImageLists == {[raises |-> TRUE, list |-> <<>>]} \cup
              {[raises |-> FALSE, list |-> l] : l \in SeqsUpTo(ImageSet, MaxImages)}

\* pages with any blocks, pages with any tables, pages with any images
TextPages  == {Page(bs, NoTables, NoImages) : bs \in SeqsUpTo(BlockSet, MaxBlocks)}
TablePages == {Page(bs, ts, NoImages) : bs \in {<<>>, <<B_Long>>}, ts \in TableLists}
ImagePages == {Page(bs, NoTables, is) : bs \in {<<>>, <<B_Long>>}, is \in ImageLists}
PageSet == TextPages \cup TablePages \cup ImagePages

\* pages of the documents of more than one page
EmptyPage == Page(<<>>, NoTables, NoImages)
PlainPages == {EmptyPage, Page(<<B_Mid>>, NoTables, NoImages),
               Page(<<B_Long>>, [raises |-> FALSE, list |-> <<Table("ok")>>], NoImages)}

\* fitz.open raises on a corrupt file
CorruptDoc == [corrupt |-> TRUE, pages |-> <<>>]
Doc(ps) == [corrupt |-> FALSE, pages |-> ps]

DocSet == {CorruptDoc} \cup {Doc(<<p>>) : p \in PageSet}
          \cup {Doc(ps) : ps \in SeqsUpTo(PlainPages, MaxPages)}

-----------------------------------------------------------------------------
(* Shared shapes: exceptions, elements, metadata *)

\* an exception that propagates out of a function, with str(e)
Raise(msg) == [exc |-> msg]
Raised(r) == "exc" \in DOMAIN r

\* an exact fraction num/den of hundredths; Const(85) is the float 0.85
Const(c) == [num |-> c, den |-> 1]

\* sum(e["confidence"] for e in elements) / len(elements)
MeanConfidence(elements) ==
    [num |-> SumSeq([i \in 1..Len(elements) |-> elements[i].confidence]),
     den |-> Len(elements)]

\* the value the claimed rule gives: 0 for an empty element list
ConfidenceAvgZeroIfEmpty(elements, default) ==
    IF elements # <<>> THEN MeanConfidence(elements) ELSE Const(0)

\* sum(...) / len(elements) if elements else <default>
ConfidenceAvg(elements, default) ==
    IF elements # <<>> THEN MeanConfidence(elements) ELSE Const(default)

\* the bbox dict of an element of the pipelines
BBoxDict(b, page_num) ==
    [x1 |-> b[1], y1 |-> b[2], x2 |-> b[3], y2 |-> b[4], page |-> page_num]

\* a piece of the markdown string, with the page whose iteration appended it
\* (page 0 is the first page; the string itself is the concatenation of the texts)
Frag(page_num, kind, text) == [page |-> page_num, kind |-> kind, text |-> text]

MarkdownText(md) == Concat([i \in 1..Len(md) |-> md[i].text])

\* the index of the first entry of list that raises, Len(list) + 1 if none does
FirstRaise(list, IsRaising(_)) ==
    IF \E i \in 1..Len(list) : IsRaising(list[i])
    THEN CHOOSE i \in 1..Len(list) :
            IsRaising(list[i]) /\ \A j \in 1..(i - 1) : ~IsRaising(list[j])
    ELSE Len(list) + 1

TableRaises(t) == t.outcome = "raise"
ImageRaises(img) == img.raises

\* "\n\n## Page {page_num + 1}\n\n"
PageHeader(page_num) ==
    NLNL \o <<"#", "#", " ", "P", "a", "g", "e", " ">> \o IntToStr(page_num + 1) \o NLNL

-----------------------------------------------------------------------------
(* models/docling_pipeline.py *)

\* DoclingPipeline._count_by_type (the same in the other pipelines)
CountByType(elements) ==
    [t \in {elements[i].type : i \in 1..Len(elements)} |->
        Cardinality({i \in 1..Len(elements) : elements[i].type = t})]

\* DoclingPipeline._format_table_markdown
FormatRow(row) == <<"|", " ">> \o Join(<<" ", "|", " ">>, row) \o <<" ", "|", "\n">>

\* a formatter that writes every data row, whatever its length
FormatTableKeepingRows(table_data) ==
    IF table_data = <<>> \/ table_data[1] = <<>> THEN <<>>
    ELSE FormatRow(table_data[1])
         \o FormatRow([i \in 1..Len(table_data[1]) |-> <<"-", "-", "-">>])
         \o Concat([i \in 1..(Len(table_data) - 1) |-> FormatRow(table_data[i + 1])])

FormatTableMarkdown(table_data) ==
    IF table_data = <<>> \/ table_data[1] = <<>> THEN <<>>
    ELSE LET headers == table_data[1]
             rows == SelectSeq(Tail(table_data), LAMBDA row : Len(row) = Len(headers))
         IN FormatRow(headers)
            \o FormatRow([i \in 1..Len(headers) |-> <<"-", "-", "-">>])
            \o Concat([i \in 1..Len(rows) |-> FormatRow(rows[i])])

DoclingHeaderPrefixes ==
    { <<"c", "h", "a", "p", "t", "e", "r">>, <<"s", "e", "c", "t", "i", "o", "n">>,
      <<"i", "n", "t", "r", "o", "d", "u", "c", "t", "i", "o", "n">>,
      <<"c", "o", "n", "c", "l", "u", "s", "i", "o", "n">>,
      <<"a", "b", "s", "t", "r", "a", "c", "t">>, <<"s", "u", "m", "m", "a", "r", "y">> }

\* DoclingPipeline._classify_block
ClassifyBlock(text, bbox) ==
    LET text_lower == Strip(Lower(text))
    IN IF Len(text_lower) < 100 /\ bbox[2] < 200 THEN "title"
       ELSE IF (\E p \in DoclingHeaderPrefixes : StartsWith(text_lower, p))
               \/ Len(text_lower) < 50 THEN "header"
       ELSE "text"

\* the block_text the pipelines build: the spans of a line concatenated, a "\n"
\* after every line that is not blank
LineText(line) == Concat([i \in 1..Len(line) |-> line[i].text])

BlockTextByLine(block) ==
    Concat([i \in 1..Len(block.lines) |->
              IF Strip(LineText(block.lines[i])) # <<>>
              THEN LineText(block.lines[i]) \o NL ELSE <<>>])

\* the table elements and markdown of one page: the tables before the first one
\* that raises (the try covers the whole loop), none if find_tables raises
TablesDone(page) ==
    IF page.tables.raises THEN <<>>
    ELSE SubSeq(page.tables.list, 1, FirstRaise(page.tables.list, TableRaises) - 1)

DoclingBlockId(page_num, block_idx) ==
    "page_" \o ToString(page_num) \o "_block_" \o ToString(block_idx)

\* an id that leaves the page out
DoclingTableIdWithoutPage(page_num, table_idx) == "table_" \o ToString(table_idx)

DoclingTableId(page_num, table_idx) ==
    "page_" \o ToString(page_num) \o "_table_" \o ToString(table_idx)

DoclingBlockElements(page, page_num) ==
    Concat([i \in 1..Len(page.blocks) |->
        LET block == page.blocks[i]
            block_text == BlockTextByLine(block)
        IN IF block.haslines /\ Strip(block_text) # <<>>
           THEN << [id |-> DoclingBlockId(page_num, i - 1),
                    type |-> ClassifyBlock(block_text, block.bbox),
                    content |-> Strip(block_text),
                    bbox |-> BBoxDict(block.bbox, page_num),
                    confidence |-> 85] >>
           ELSE <<>>])

DoclingBlockMarkdown(e) ==
    IF e.type = "title" THEN <<"#", " ">> \o e.content \o NLNL
    ELSE IF e.type = "header" THEN <<"#", "#", " ">> \o e.content \o NLNL
    ELSE e.content \o NLNL

DoclingTableElements(page, page_num) ==
    LET done == TablesDone(page)
    IN Concat([i \in 1..Len(done) |->
        IF done[i].data # <<>>
        THEN << [id |-> DoclingTableId(page_num, i - 1),
                 type |-> "table",
                 content |-> FormatTableMarkdown(done[i].data),
                 bbox |-> BBoxDict(done[i].bbox, page_num),
                 confidence |-> 80] >>
        ELSE <<>>])

\* one iteration of the page loop of _fallback_extraction: the elements and the
\* markdown it appends
DoclingPageElements(page, page_num) ==
    DoclingBlockElements(page, page_num) \o DoclingTableElements(page, page_num)

DoclingPageMarkdown(page, page_num) ==
    LET Rendered(bs, ts) ==
            <<Frag(page_num, "header", PageHeader(page_num))>>
            \o [i \in 1..Len(bs) |-> Frag(page_num, "block", DoclingBlockMarkdown(bs[i]))]
            \o [i \in 1..Len(ts) |-> Frag(page_num, "table", NL \o ts[i].content \o NLNL)]
    IN Rendered(DoclingBlockElements(page, page_num), DoclingTableElements(page, page_num))

\* the result of the except clause of the pipelines' fallback extraction
PipelineFailure(msg) ==
    [markdown |-> <<>>, elements |-> <<>>,
     metadata |-> [total_pages |-> 0, total_elements |-> 0,
                   by_type |-> <<>>, confidence_avg |-> Const(0)],
     success |-> FALSE, error |-> msg]

DocClosed == "document closed"
OpenFailed == "cannot open broken document"

DoclingFallbackEmptyAvg == 85

\* DoclingPipeline._fallback_extraction; rejects: the handle raises when it is used
\* after doc.close() (len(doc) in the metadata)
DoclingFallbackExtraction(d, rejects) ==
    IF d.corrupt THEN PipelineFailure(OpenFailed)
    ELSE IF rejects THEN PipelineFailure(DocClosed)
    ELSE LET n == Len(d.pages)
             Extraction(elements) ==
                [markdown |-> Concat([k \in 1..n |-> DoclingPageMarkdown(d.pages[k], k - 1)]),
                 elements |-> elements,
                 metadata |-> [total_pages |-> n,
                               total_elements |-> Len(elements),
                               by_type |-> CountByType(elements),
                               confidence_avg |->
                                   ConfidenceAvg(elements, DoclingFallbackEmptyAvg),
                               model_version |-> "pymupdf_fallback_v1.0"],
                 success |-> TRUE]
         IN Extraction(Concat([k \in 1..n |-> DoclingPageElements(d.pages[k], k - 1)]))

\* what the real Docling engine returns (converter.convert): it raises, or a
\* document whose body items may have a bbox, a page and a confidence attribute
T_Body == <<"b", "o", "d", "y">>

DoclingItem(hasbbox, cls) ==
    [hasbbox |-> hasbbox, bbox |-> <<72, 100, 300, 120>>, cls |-> cls, text |-> T_Body]

WithConfidence(item, conf) == item @@ [confidence |-> conf]

C_TextItem == <<"T", "e", "x", "t", "I", "t", "e", "m">>
C_TableItem == <<"T", "a", "b", "l", "e", "I", "t", "e", "m">>
C_SectionHeaderItem == <<"S", "e", "c", "t", "i", "o", "n", "H", "e", "a", "d", "e", "r", "I", "t", "e", "m">>

DoclingItemSet == {DoclingItem(TRUE, C_TextItem),
                   WithConfidence(DoclingItem(TRUE, C_TableItem), 60),
                   DoclingItem(FALSE, C_TextItem),
                   WithConfidence(DoclingItem(TRUE, C_SectionHeaderItem), 120)}

MaxItems == 2

DoclingEngineSet ==
    {[raises |-> TRUE, items |-> <<>>]} \cup
    {[raises |-> FALSE, items |-> its] : its \in SeqsUpTo(DoclingItemSet, MaxItems)}

\* DoclingPipeline._get_element_type
GetElementType(cls) ==
    LET item_type == Lower(cls)
    IN IF Contains(item_type, <<"t", "i", "t", "l", "e">>) \/ Contains(item_type, <<"h", "e", "a", "d", "i", "n", "g">>) THEN "title"
       ELSE IF Contains(item_type, <<"h", "e", "a", "d", "e", "r">>) THEN "header"
       ELSE IF Contains(item_type, <<"t", "a", "b", "l", "e">>) THEN "table"
       ELSE IF Contains(item_type, <<"l", "i", "s", "t">>) THEN "list"
       ELSE IF Contains(item_type, <<"f", "i", "g", "u", "r", "e">>) \/ Contains(item_type, <<"i", "m", "a", "g", "e">>) THEN "image"
       ELSE "text"

RECURSIVE DoclingBodyElements(_, _)
DoclingBodyElements(items, elements) ==
    IF items = <<>> THEN elements
    ELSE LET item == Head(items)
         IN DoclingBodyElements(Tail(items),
              IF item.hasbbox
              THEN Append(elements,
                     [id |-> "element_" \o ToString(Len(elements)),
                      type |-> GetElementType(item.cls),
                      content |-> item.text,
                      bbox |-> BBoxDict(item.bbox, IF HasAttr(item, "page") THEN item.page ELSE 0),
                      confidence |-> IF HasAttr(item, "confidence") THEN item.confidence
                                     ELSE 95])
              ELSE elements)

DoclingEngineEmptyAvg == 95

\* the try block of DoclingPipeline.extract, given the engine's document
DoclingEngineResult(out) ==
    LET Extraction(elements) ==
            [markdown |-> <<Frag(0, "engine", T_Body)>>,
             elements |-> elements,
             metadata |-> [total_pages |-> 1,
                           total_elements |-> Len(elements),
                           by_type |-> CountByType(elements),
                           confidence_avg |-> ConfidenceAvg(elements, DoclingEngineEmptyAvg),
                           model_version |-> "docling_v1.0"],
             success |-> TRUE]
    IN Extraction(DoclingBodyElements(out.items, <<>>))

\* initialize(): initialized becomes True exactly when the engine's packages import
\* and load
Initialize(importOk) == importOk

\* an extract that takes its path from the flag as it was before initialize()
DoclingExtractStale(d, e, init) ==
    LET init1 == IF init THEN TRUE ELSE Initialize(e.importOk)
    IN [initialized |-> init1,
        result |-> IF ~init \/ e.docling.raises \/ d.corrupt
                   THEN DoclingFallbackExtraction(d, e.rejectsClosed)
                   ELSE DoclingEngineResult(e.docling)]

\* DoclingPipeline.extract: the result and the singleton's initialized flag after it
DoclingExtract(d, e, init) ==
    LET init1 == IF init THEN TRUE ELSE Initialize(e.importOk)
    IN [initialized |-> init1,
        result |-> IF ~init1 \/ e.docling.raises \/ d.corrupt
                   THEN DoclingFallbackExtraction(d, e.rejectsClosed)
                   ELSE DoclingEngineResult(e.docling)]

-----------------------------------------------------------------------------
(* models/mineru_pipeline.py: the scientific content detectors.  A character *)
(* outside ASCII is the token of its code point ("U+2211" is the sum sign).  *)

Digits == {"0", "1", "2", "3", "4", "5", "6", "7", "8", "9"}
Letters == {UpperCase[i] : i \in 1..Len(UpperCase)} \cup {LowerCase[i] : i \in 1..Len(LowerCase)}

MathSymbols == {"U+2211", "U+220F", "U+222B", "U+2202", "U+2207", "U+221E",
                "U+00B1", "U+2264", "U+2265", "U+2260", "U+2248", "U+221D",
                "U+2208", "U+2209", "U+2282", "U+2283", "U+222A", "U+2229"}

GreekLetters == {"U+03B1", "U+03B2", "U+03B3", "U+03B4", "U+03B5", "U+03B6",
                 "U+03B7", "U+03B8", "U+03B9", "U+03BA", "U+03BB", "U+03BC",
                 "U+03BD", "U+03BE", "U+03BF", "U+03C0", "U+03C1", "U+03C2",
                 "U+03C3", "U+03C4", "U+03C5", "U+03C6", "U+03C7", "U+03C8",
                 "U+03C9", "U+0391", "U+0392", "U+0393", "U+0394", "U+0395",
                 "U+0396", "U+0397", "U+0398", "U+0399", "U+039A", "U+039B",
                 "U+039C", "U+039D", "U+039E", "U+039F", "U+03A0", "U+03A1",
                 "U+03A2", "U+03A3", "U+03A4", "U+03A5", "U+03A6", "U+03A7",
                 "U+03A8", "U+03A9"}

\* \w of a Python str pattern
IsWordChar(c) == c \in Letters \cup Digits \cup {"_"} \cup GreekLetters

\* \b before position i, where s[i] is a word character
WordStart(s, i) == i = 1 \/ ~IsWordChar(s[i - 1])

AllIn(s, i, j, S) == \A k \in i..j : s[k] \in S
NoneIn(s, i, j, S) == \A k \in i..j : s[k] \notin S

\* MinerUPipeline._contains_formula: re.search of each pattern
ContainsFormula(s) ==
    LET n == Len(s)
    IN \/ \E i \in 1..n :                                   \* \$.*?\$
            /\ s[i] = "$"
            /\ \E j \in (i + 1)..n : s[j] = "$" /\ NoneIn(s, i + 1, j - 1, {"\n"})
       \/ \E i \in 1..(n - 1) :                             \* \$\$.*?\$\$
            /\ s[i] = "$" /\ s[i + 1] = "$"
            /\ \E j \in (i + 2)..(n - 1) :
                  s[j] = "$" /\ s[j + 1] = "$" /\ NoneIn(s, i + 2, j - 1, {"\n"})
       \/ \E i \in 1..n :                                   \* \\[a-zA-Z]+\{.*?\}
            /\ s[i] = "\\"
            /\ \E j \in (i + 1)..(n - 1) :
                  /\ AllIn(s, i + 1, j, Letters) /\ s[j + 1] = "{"
                  /\ \E m \in (j + 2)..n : s[m] = "}" /\ NoneIn(s, j + 2, m - 1, {"\n"})
       \/ \E i \in 1..n : s[i] \in MathSymbols
       \/ \E i \in 1..n : s[i] \in GreekLetters
       \/ \E i \in 1..n :                                   \* \b\d+\s*[+\-*/=]\s*\d+
            /\ WordStart(s, i) /\ s[i] \in Digits
            /\ \E j \in i..n :
                  /\ AllIn(s, i, j, Digits)
                  /\ \E k \in (j + 1)..n :
                        /\ s[k] \in {"+", "-", "*", "/", "="}
                        /\ AllIn(s, j + 1, k - 1, Whitespace)
                        /\ \E m \in (k + 1)..n :
                              s[m] \in Digits /\ AllIn(s, k + 1, m - 1, Whitespace)
       \/ \E i \in 1..n :                                   \* \b[a-zA-Z]\s*=\s*[^,;.]+
            /\ WordStart(s, i) /\ s[i] \in Letters
            /\ \E k \in (i + 1)..(n - 1) :
                  /\ s[k] = "=" /\ AllIn(s, i + 1, k - 1, Whitespace)
                  /\ s[k + 1] \notin {",", ";", "."}

HasFourDigits(s, i, j) == \E k \in i..(j - 3) : AllIn(s, k, k + 3, Digits)

BracketClass == Digits \cup Whitespace \cup {",", "-"}

\* a match of \[([\d\s,\-]+)\] from i to j, and of \(([^)]*\d{4}[^)]*)\)
BracketMatch(s, i, j) ==
    /\ i + 1 < j /\ s[i] = "[" /\ s[j] = "]" /\ AllIn(s, i + 1, j - 1, BracketClass)
ParenMatch(s, i, j) ==
    /\ i < j /\ s[i] = "(" /\ s[j] = ")" /\ NoneIn(s, i + 1, j - 1, {")"})
    /\ HasFourDigits(s, i + 1, j - 1)

\* MinerUPipeline._contains_citation: re.search with re.IGNORECASE
ContainsCitation(s) ==
    LET n == Len(s)
    IN \/ \E i \in 1..n, j \in 1..n : BracketMatch(s, i, j)
       \/ \E i \in 1..n, j \in 1..n : ParenMatch(s, i, j)
       \/ Contains(Lower(s), <<"e", "t", " ", "a", "l", ".">>)
       \/ Contains(Lower(s), <<"i", "b", "i", "d", ".">>)
       \/ Contains(Lower(s), <<"o", "p", ".", " ", "c", "i", "t", ".">>)

AcademicSections ==
    <<<<"a", "b", "s", "t", "r", "a", "c", "t">>,
      <<"i", "n", "t", "r", "o", "d", "u", "c", "t", "i", "o", "n">>,
      <<"m", "e", "t", "h", "o", "d", "o", "l", "o", "g", "y">>,
      <<"m", "e", "t", "h", "o", "d", "s">>,
      <<"r", "e", "s", "u", "l", "t", "s">>,
      <<"d", "i", "s", "c", "u", "s", "s", "i", "o", "n">>,
      <<"c", "o", "n", "c", "l", "u", "s", "i", "o", "n">>,
      <<"a", "c", "k", "n", "o", "w", "l", "e", "d", "g", "m", "e", "n", "t", "s">>,
      <<"r", "e", "f", "e", "r", "e", "n", "c", "e", "s">>,
      <<"b", "i", "b", "l", "i", "o", "g", "r", "a", "p", "h", "y">>,
      <<"a", "p", "p", "e", "n", "d", "i", "x">>,
      <<"r", "e", "l", "a", "t", "e", "d", " ", "w", "o", "r", "k">>,
      <<"b", "a", "c", "k", "g", "r", "o", "u", "n", "d">>,
      <<"l", "i", "t", "e", "r", "a", "t", "u", "r", "e", " ", "r", "e", "v", "i", "e", "w">>,
      <<"e", "x", "p", "e", "r", "i", "m", "e", "n", "t", "a", "l", " ", "s", "e", "t", "u", "p">>,
      <<"e", "v", "a", "l", "u", "a", "t", "i", "o", "n">>,
      <<"f", "u", "t", "u", "r", "e", " ", "w", "o", "r", "k">>,
      <<"l", "i", "m", "i", "t", "a", "t", "i", "o", "n", "s">>>>

\* ^\d+\.?\s+[A-Z] matched at the start of t
NumberedSection(t) ==
    \E j \in 1..Len(t) :
        /\ AllIn(t, 1, j, Digits)
        /\ \E k \in {j + 1, j + 2} :
              /\ k = j + 2 => (j + 1 <= Len(t) /\ t[j + 1] = ".")
              /\ \E m \in k..(Len(t) - 1) :
                    /\ AllIn(t, k, m, Whitespace)
                    /\ t[m + 1] \in {UpperCase[i] : i \in 1..Len(UpperCase)}

\* MinerUPipeline._is_academic_section
IsAcademicSection(text) ==
    LET text_lower == Strip(Lower(text))
    IN \/ \E i \in 1..Len(AcademicSections) :
            Contains(text_lower, AcademicSections[i]) \/ text_lower = AcademicSections[i]
       \/ NumberedSection(Strip(text))

SectionTypes ==
    <<<<<<"a", "b", "s", "t", "r", "a", "c", "t">>, "abstract">>,
      <<<<"i", "n", "t", "r", "o", "d", "u", "c", "t", "i", "o", "n">>, "introduction">>,
      <<<<"m", "e", "t", "h", "o", "d", "o", "l", "o", "g", "y">>, "methods">>,
      <<<<"m", "e", "t", "h", "o", "d", "s">>, "methods">>,
      <<<<"r", "e", "s", "u", "l", "t", "s">>, "results">>,
      <<<<"d", "i", "s", "c", "u", "s", "s", "i", "o", "n">>, "discussion">>,
      <<<<"c", "o", "n", "c", "l", "u", "s", "i", "o", "n">>, "conclusion">>,
      <<<<"a", "c", "k", "n", "o", "w", "l", "e", "d", "g", "m", "e", "n", "t", "s">>, "acknowledgments">>,
      <<<<"r", "e", "f", "e", "r", "e", "n", "c", "e", "s">>, "references">>,
      <<<<"b", "i", "b", "l", "i", "o", "g", "r", "a", "p", "h", "y">>, "references">>,
      <<<<"a", "p", "p", "e", "n", "d", "i", "x">>, "appendix">>>>

\* MinerUPipeline._get_section_type: the dict is scanned in insertion order
GetSectionType(text) ==
    LET text_lower == Strip(Lower(text))
        hits == {i \in 1..Len(SectionTypes) : Contains(text_lower, SectionTypes[i][1])}
    IN IF hits = {} THEN "other"
       ELSE SectionTypes[CHOOSE i \in hits : \A j \in hits : i <= j][2]

LatexReplacements ==
    <<<<"U+00B1", <<"\\", "p", "m">>>>,
      <<"U+2264", <<"\\", "l", "e", "q">>>>,
      <<"U+2265", <<"\\", "g", "e", "q">>>>,
      <<"U+2260", <<"\\", "n", "e", "q">>>>,
      <<"U+2248", <<"\\", "a", "p", "p", "r", "o", "x">>>>,
      <<"U+221D", <<"\\", "p", "r", "o", "p", "t", "o">>>>,
      <<"U+2208", <<"\\", "i", "n">>>>,
      <<"U+2209", <<"\\", "n", "o", "t", "i", "n">>>>,
      <<"U+2282", <<"\\", "s", "u", "b", "s", "e", "t">>>>,
      <<"U+2283", <<"\\", "s", "u", "p", "s", "e", "t">>>>,
      <<"U+222A", <<"\\", "c", "u", "p">>>>,
      <<"U+2229", <<"\\", "c", "a", "p">>>>,
      <<"U+2211", <<"\\", "s", "u", "m">>>>,
      <<"U+220F", <<"\\", "p", "r", "o", "d">>>>,
      <<"U+222B", <<"\\", "i", "n", "t">>>>,
      <<"U+2202", <<"\\", "p", "a", "r", "t", "i", "a", "l">>>>,
      <<"U+2207", <<"\\", "n", "a", "b", "l", "a">>>>,
      <<"U+221E", <<"\\", "i", "n", "f", "t", "y">>>>>>

\* MinerUPipeline._convert_to_latex: every symbol replaced by its command
ConvertToLatex(text) ==
    Concat([i \in 1..Len(text) |->
        IF \E r \in 1..Len(LatexReplacements) : LatexReplacements[r][1] = text[i]
        THEN LatexReplacements[CHOOSE r \in 1..Len(LatexReplacements) :
                                 LatexReplacements[r][1] = text[i]][2]
        ELSE <<text[i]>>])

\* the first "$" at or after i on the same line, 0 if there is none
NextDollar(s, i) ==
    LET c == {m \in i..Len(s) : s[m] = "$" /\ NoneIn(s, i, m - 1, {"\n"})}
    IN IF c = {} THEN 0 ELSE CHOOSE m \in c : \A k \in c : m <= k

\* group 1 of the match of \$\$?(.*?)\$\$? that starts at i, or None
LatexGroupAt(s, i) ==
    IF s[i] # "$" THEN None
    ELSE IF i < Len(s) /\ s[i + 1] = "$"
         THEN IF NextDollar(s, i + 2) # 0
              THEN [group |-> SubSeq(s, i + 2, NextDollar(s, i + 2) - 1)]
              ELSE [group |-> <<>>]
    ELSE IF NextDollar(s, i + 1) # 0
         THEN [group |-> SubSeq(s, i + 1, NextDollar(s, i + 1) - 1)]
    ELSE None

\* MinerUPipeline._extract_latex
ExtractLatex(text) ==
    LET starts == {i \in 1..Len(text) : LatexGroupAt(text, i) # None}
    IN IF starts # {}
       THEN LatexGroupAt(text, CHOOSE i \in starts : \A j \in starts : i <= j).group
       ELSE ConvertToLatex(text)

\* str.split(sep) for a one-character separator
RECURSIVE SplitOn(_, _, _)
SplitOn(s, sep, cur) ==
    IF s = <<>> THEN <<cur>>
    ELSE IF Head(s) = sep THEN <<cur>> \o SplitOn(Tail(s), sep, <<>>)
    ELSE SplitOn(Tail(s), sep, Append(cur, Head(s)))

Split(s, sep) == SplitOn(s, sep, <<>>)

DigitValue(c) == CHOOSE d \in 0..9 : DigitChar(d) = c

RECURSIVE DigitsValue(_, _)
DigitsValue(s, acc) ==
    IF s = <<>> THEN acc ELSE DigitsValue(Tail(s), 10 * acc + DigitValue(Head(s)))

\* int(s) of a string of digits and whitespace, or its ValueError
ParseInt(s) ==
    LET t == Strip(s)
    IN IF t # <<>> /\ AllIn(t, 1, Len(t), Digits) THEN [value |-> DigitsValue(t, 0)]
       ELSE Raise("ValueError")

\* a range expansion that leaves the end of the range out
PartReferencesWithoutEnd(piece) ==
    LET part == Strip(piece)
        Expanded(se) ==
            IF Len(se) # 2 THEN Raise("ValueError")
            ELSE IF Raised(ParseInt(se[1])) \/ Raised(ParseInt(se[2]))
                 THEN Raise("ValueError")
            ELSE [refs |-> {IntToStr(i) :
                              i \in ParseInt(se[1]).value..(ParseInt(se[2]).value - 1)}]
    IN IF "-" \in {part[i] : i \in 1..Len(part)}
       THEN Expanded(Split(part, "-"))
       ELSE [refs |-> {part}]

\* the references of one comma-separated part of a bracket, or the ValueError of
\* the unpacking of part.split('-') or of int()
PartReferences(piece) ==
    LET part == Strip(piece)
    IN IF "-" \in {part[i] : i \in 1..Len(part)}
       THEN LET se == Split(part, "-")
            IN IF Len(se) # 2 THEN Raise("ValueError")
               ELSE IF Raised(ParseInt(se[1])) \/ Raised(ParseInt(se[2]))
                    THEN Raise("ValueError")
               ELSE [refs |-> {IntToStr(i) : i \in ParseInt(se[1]).value..ParseInt(se[2]).value}]
       ELSE [refs |-> {part}]

\* re.findall(r'\(([^)]*\d{4}[^)]*)\)', text): leftmost matches that do not overlap
RECURSIVE AuthorYear(_, _)
AuthorYear(s, pos) ==
    IF pos > Len(s) THEN {}
    ELSE IF \E j \in (pos + 1)..Len(s) : ParenMatch(s, pos, j)
         THEN LET j == CHOOSE j \in (pos + 1)..Len(s) : ParenMatch(s, pos, j)
              IN {SubSeq(s, pos + 1, j - 1)} \cup AuthorYear(s, j + 1)
    ELSE AuthorYear(s, pos + 1)

\* MinerUPipeline._extract_references: the set behind list(set(references)), or the
\* ValueError of the unpacking or of int()
ExtractReferences(text) ==
    LET brackets == {<<i, j>> \in (1..Len(text)) \X (1..Len(text)) : BracketMatch(text, i, j)}
        pieces == UNION {{p[k] : k \in 1..Len(p)} :
                           p \in {Split(SubSeq(text, b[1] + 1, b[2] - 1), ",") : b \in brackets}}
    IN IF \E piece \in pieces : Raised(PartReferences(piece))
       THEN Raise("ValueError")
       ELSE [refs |-> UNION {PartReferences(piece).refs : piece \in pieces}
                      \cup AuthorYear(text, 1)]

MinerUCaptionPrefixes ==
    { <<"f", "i", "g">>, <<"f", "i", "g", "u", "r", "e">>, <<"t", "a", "b", "l", "e">>,
      <<"c", "h", "a", "r", "t">> }

\* MinerUPipeline._classify_scientific_block
ClassifyScientificBlock(text, bbox) ==
    LET text_lower == Strip(Lower(text))
    IN IF ContainsFormula(text) THEN "equation"
       ELSE IF ContainsCitation(text) THEN "citation"
       ELSE IF IsAcademicSection(text) THEN "header"
       ELSE IF \/ \E p \in MinerUCaptionPrefixes : StartsWith(text_lower, p)
               \/ Contains(text_lower, <<"f", "i", "g", "u", "r", "e">>)
               \/ Contains(text_lower, <<"t", "a", "b", "l", "e">>) THEN "caption"
       ELSE IF Len(text_lower) < 100 /\ bbox[2] < 150 THEN "title"
       ELSE "text"

\* MinerUPipeline._format_scientific_table: a formula cell is wrapped in $...$
ScientificCell(cell) ==
    IF ContainsFormula(cell) THEN <<"$">> \o ExtractLatex(cell) \o <<"$">> ELSE cell

FormatScientificTable(table_data) ==
    IF table_data = <<>> \/ table_data[1] = <<>> THEN <<>>
    ELSE LET headers == table_data[1]
             rows == SelectSeq(Tail(table_data), LAMBDA row : Len(row) = Len(headers))
         IN FormatRow(headers)
            \o FormatRow([i \in 1..Len(headers) |-> <<"-", "-", "-">>])
            \o Concat([i \in 1..Len(rows) |->
                         FormatRow([c \in 1..Len(rows[i]) |-> ScientificCell(rows[i][c])])])

\* MinerUPipeline._classify_table_type
TableTypeWords ==
    << <<"results", {<<"r", "e", "s", "u", "l", "t">>,
          <<"d", "a", "t", "a">>,
          <<"v", "a", "l", "u", "e">>,
          <<"m", "e", "a", "s", "u", "r", "e", "m", "e", "n", "t">>,
          <<"e", "x", "p", "e", "r", "i", "m", "e", "n", "t">>}>>,
       <<"statistics", {<<"m", "e", "a", "n">>,
          <<"s", "t", "d">>,
          <<"p", "-", "v", "a", "l", "u", "e">>,
          <<"s", "i", "g", "n", "i", "f", "i", "c", "a", "n", "c", "e">>,
          <<"c", "o", "r", "r", "e", "l", "a", "t", "i", "o", "n">>}>>,
       <<"comparison", {<<"m", "e", "t", "h", "o", "d">>,
          <<"a", "p", "p", "r", "o", "a", "c", "h">>,
          <<"a", "l", "g", "o", "r", "i", "t", "h", "m">>,
          <<"m", "o", "d", "e", "l">>,
          <<"c", "o", "m", "p", "a", "r", "i", "s", "o", "n">>}>>,
       <<"parameters", {<<"p", "a", "r", "a", "m", "e", "t", "e", "r">>,
          <<"s", "e", "t", "t", "i", "n", "g">>,
          <<"c", "o", "n", "f", "i", "g", "u", "r", "a", "t", "i", "o", "n">>,
          <<"h", "y", "p", "e", "r", "p", "a", "r", "a", "m", "e", "t", "e", "r">>}>> >>

ClassifyTableType(table_data) ==
    IF table_data = <<>> THEN "unknown"
    ELSE LET headers == Join(<<" ">>, [i \in 1..Len(table_data[1]) |-> Lower(table_data[1][i])])
             hits == {i \in 1..Len(TableTypeWords) :
                        \E w \in TableTypeWords[i][2] : Contains(headers, w)}
         IN IF hits = {} THEN "data"
            ELSE TableTypeWords[CHOOSE i \in hits : \A j \in hits : i <= j][1]

-----------------------------------------------------------------------------
(* models/mineru_pipeline.py: the pipeline *)

\* the block elements of one page of _scientific_fallback_extraction; an element
\* with exc set marks the block at which _extract_references raises
MinerUBlockElements(page, page_num) ==
    Concat([i \in 1..Len(page.blocks) |->
        LET block == page.blocks[i]
            Element(block_text, element_type) ==
                [id |-> DoclingBlockId(page_num, i - 1),
                 type |-> element_type,
                 content |-> Strip(block_text),
                 bbox |-> BBoxDict(block.bbox, page_num),
                 confidence |-> 88]
            WithReferences(element, references) ==
                IF Raised(references) THEN <<references>>
                ELSE <<element @@ [references |-> references.refs]>>
            Appended(block_text, element_type, element) ==
                IF ~(block.haslines /\ Strip(block_text) # <<>>) THEN <<>>
                ELSE IF element_type = "equation"
                     THEN <<element @@ [latex |-> ExtractLatex(block_text)]>>
                ELSE IF element_type = "citation"
                     THEN WithReferences(element, ExtractReferences(block_text))
                ELSE IF element_type = "header" /\ IsAcademicSection(block_text)
                     THEN <<element @@ [section_type |-> GetSectionType(block_text)]>>
                ELSE <<element>>
            Typed(block_text, element_type) ==
                Appended(block_text, element_type, Element(block_text, element_type))
            Classified(block_text) ==
                Typed(block_text, ClassifyScientificBlock(block_text, block.bbox))
        IN Classified(BlockTextByLine(block))])

MinerUBlockMarkdown(e) ==
    IF e.type = "equation" THEN <<"$", "$", "\n">> \o e.latex \o <<"\n", "$", "$">> \o NLNL
    ELSE IF e.type = "title" THEN <<"#", " ">> \o e.content \o NLNL
    ELSE IF e.type = "header" THEN <<"#", "#", " ">> \o e.content \o NLNL
    ELSE IF e.type = "citation" THEN <<">", " ">> \o e.content \o NLNL
    ELSE e.content \o NLNL

MinerUTableElements(page, page_num) ==
    LET done == TablesDone(page)
    IN Concat([i \in 1..Len(done) |->
        IF done[i].data # <<>>
        THEN << [id |-> DoclingTableId(page_num, i - 1),
                 type |-> "table",
                 content |-> FormatScientificTable(done[i].data),
                 bbox |-> BBoxDict(done[i].bbox, page_num),
                 confidence |-> 85,
                 table_type |-> ClassifyTableType(done[i].data)] >>
        ELSE <<>>])

MinerUPageElements(page, page_num) ==
    MinerUBlockElements(page, page_num) \o MinerUTableElements(page, page_num)

MinerUPageMarkdown(page, page_num) ==
    LET Rendered(bs, ts) ==
            <<Frag(page_num, "header", PageHeader(page_num))>>
            \o [i \in 1..Len(bs) |-> Frag(page_num, "block", MinerUBlockMarkdown(bs[i]))]
            \o [i \in 1..Len(ts) |-> Frag(page_num, "table", NL \o ts[i].content \o NLNL)]
    IN Rendered(MinerUBlockElements(page, page_num), MinerUTableElements(page, page_num))

MinerUFallbackEmptyAvg == 88

CountType(elements, t) == Cardinality({i \in 1..Len(elements) : elements[i].type = t})

\* MinerUPipeline._scientific_fallback_extraction
ScientificFallbackExtraction(d, rejects) ==
    IF d.corrupt THEN PipelineFailure(OpenFailed)
    ELSE LET n == Len(d.pages)
             Extraction(elements) ==
                IF \E i \in 1..Len(elements) : Raised(elements[i])
                THEN PipelineFailure("ValueError")
                ELSE IF rejects THEN PipelineFailure(DocClosed)
                ELSE [markdown |-> Concat([k \in 1..n |-> MinerUPageMarkdown(d.pages[k], k - 1)]),
                      elements |-> elements,
                      metadata |->
                        [total_pages |-> n,
                         total_elements |-> Len(elements),
                         by_type |-> CountByType(elements),
                         confidence_avg |-> ConfidenceAvg(elements, MinerUFallbackEmptyAvg),
                         formulas_detected |-> CountType(elements, "equation"),
                         citations_detected |-> CountType(elements, "citation"),
                         tables_detected |-> CountType(elements, "table"),
                         figures_detected |-> CountType(elements, "image"),
                         academic_sections |->
                            Cardinality({i \in 1..Len(elements) :
                                elements[i].type = "header" /\ "section_type" \in DOMAIN elements[i]}),
                         model_version |-> "mineru_fallback_v1.0"],
                      success |-> TRUE]
         IN Extraction(Concat([k \in 1..n |-> MinerUPageElements(d.pages[k], k - 1)]))

MinerUEngineEmptyAvg == 92

\* the try block of MinerUPipeline.extract: _run_mineru_pipeline is a placeholder
\* that returns no markdown, no elements and 0 pages
MinerUEngineResult ==
    [markdown |-> <<>>, elements |-> <<>>,
     metadata |-> [total_pages |-> 0, total_elements |-> 0, by_type |-> <<>>,
                   confidence_avg |-> Const(MinerUEngineEmptyAvg),
                   formulas_detected |-> 0, citations_detected |-> 0,
                   tables_detected |-> 0, figures_detected |-> 0,
                   model_version |-> "mineru_v1.0"],
     success |-> TRUE]

\* an extract that runs initialize() on every call
MinerUExtractRetrying(d, e, init) ==
    LET init1 == Initialize(e.importOk)
    IN [initialized |-> init1,
        result |-> IF ~init1 THEN ScientificFallbackExtraction(d, e.rejectsClosed)
                   ELSE MinerUEngineResult]

\* MinerUPipeline.extract: open(file_path, 'rb') reads any stored file, so the try
\* block does not raise
MinerUExtract(d, e, init) ==
    LET init1 == IF init THEN TRUE ELSE Initialize(e.importOk)
    IN [initialized |-> init1,
        result |-> IF ~init1 THEN ScientificFallbackExtraction(d, e.rejectsClosed)
                   ELSE MinerUEngineResult]

-----------------------------------------------------------------------------
(* models/surya_pipeline.py *)

Min(a, b) == IF a <= b THEN a ELSE b

\* SuryaPipeline._bbox_overlap
BBoxOverlap(bbox1, bbox2) ==
    ~(bbox1[3] < bbox2[1] \/ bbox2[3] < bbox1[1] \/ bbox1[4] < bbox2[2] \/ bbox2[4] < bbox1[2])

\* SuryaPipeline._classify_from_layout; layout_result is None or has bboxes and labels
ClassifyLabel(label) ==
    LET label_lower == Lower(label)
    IN IF Contains(label_lower, <<"t", "i", "t", "l", "e">>) \/ Contains(label_lower, <<"h", "e", "a", "d", "i", "n", "g">>) THEN "title"
       ELSE IF Contains(label_lower, <<"h", "e", "a", "d", "e", "r">>) THEN "header"
       ELSE IF Contains(label_lower, <<"t", "a", "b", "l", "e">>) THEN "table"
       ELSE IF Contains(label_lower, <<"l", "i", "s", "t">>) THEN "list"
       ELSE IF Contains(label_lower, <<"f", "i", "g", "u", "r", "e">>) \/ Contains(label_lower, <<"i", "m", "a", "g", "e">>) THEN "image"
       ELSE "unmatched"

ClassifyFromLayout(bbox, layout_result) ==
    IF layout_result = None \/ ~HasAttr(layout_result, "bboxes") THEN "text"
    ELSE LET hits == {i \in 1..Len(layout_result.bboxes) :
                        /\ BBoxOverlap(bbox, layout_result.bboxes[i])
                        /\ ClassifyLabel(layout_result.labels[i]) # "unmatched"}
         IN IF hits = {} THEN "text"
            ELSE ClassifyLabel(layout_result.labels[CHOOSE i \in hits : \A j \in hits : i <= j])

\* an estimate that keeps the pixmap's size whatever the size of the page
EstimateImageBBoxUncapped(page, pix) ==
    LET x1 == (20 * page.width - 20 * pix.width) \div 2
        y1 == (20 * page.height * 3) \div 10
    IN <<x1, y1, x1 + 20 * pix.width, y1 + 20 * pix.height>>

\* the coordinates of _estimate_image_bbox are kept in twentieths of a point,
\* in which 0.8 * w, 0.6 * h, 0.3 * h and the halving are exact
Scale == 20

\* SuryaPipeline._estimate_image_bbox (page.rect does not raise), in
\* twentieths of a point
EstimateImageBBoxScaled(page, pix) ==
    LET page_width == Scale * page.width
        page_height == Scale * page.height
        img_width == Min(Scale * pix.width, (page_width * 8) \div 10)
        img_height == Min(Scale * pix.height, (page_height * 6) \div 10)
        x1 == (page_width - img_width) \div 2
        y1 == (page_height * 3) \div 10
    IN <<x1, y1, x1 + img_width, y1 + img_height>>

\* the same box in whole points
EstimateImageBBox(page, pix) ==
    [i \in 1..4 |-> EstimateImageBBoxScaled(page, pix)[i] \div Scale]

\* the block_text of the loops that concatenate the spans of all lines
BlockTextFlat(block) == Concat([i \in 1..Len(block.lines) |-> LineText(block.lines[i])])

\* page.get_text(): the text of the page, line by line
PageText(page) ==
    Concat([i \in 1..Len(page.blocks) |->
              Concat([l \in 1..Len(page.blocks[i].lines) |->
                        LineText(page.blocks[i].lines[l]) \o NL])])

SuryaBlockElements(page, page_num, conf, lang) ==
    Concat([i \in 1..Len(page.blocks) |->
        LET block == page.blocks[i]
            block_text == BlockTextFlat(block)
        IN IF block.haslines /\ Strip(block_text) # <<>>
           THEN << [id |-> DoclingBlockId(page_num, i - 1),
                    type |-> "text",
                    content |-> Strip(block_text),
                    bbox |-> BBoxDict(block.bbox, page_num),
                    confidence |-> conf,
                    language |-> lang] >>
           ELSE <<>>])

\* the images the loop reaches: those before the first whose extraction raises
ImagesDone(page) ==
    IF page.images.raises THEN <<>>
    ELSE SubSeq(page.images.list, 1, FirstRaise(page.images.list, ImageRaises) - 1)

ImagesRaise(page) ==
    page.images.raises \/ FirstRaise(page.images.list, ImageRaises) <= Len(page.images.list)

SmallImageLimit == 50

SuryaImageId(page_num, img_idx) ==
    "page_" \o ToString(page_num) \o "_image_" \o ToString(img_idx)

SuryaImageElements(page, page_num) ==
    LET done == ImagesDone(page)
    IN Concat([i \in 1..Len(done) |->
        IF done[i].width < SmallImageLimit \/ done[i].height < SmallImageLimit THEN <<>>
        ELSE << [id |-> SuryaImageId(page_num, i - 1),
                 type |-> "image",
                 content |-> <<"[", "I", "m", "a", "g", "e", ":", " ">>
                             \o IntToStr(done[i].width) \o <<"x">> \o IntToStr(done[i].height)
                             \o <<" ", "p", "i", "x", "e", "l", "s", "]">>,
                 bbox |-> BBoxDict(EstimateImageBBox(page, done[i]), page_num),
                 confidence |-> 85,
                 language |-> "image",
                 image_info |-> [width |-> done[i].width, height |-> done[i].height]] >>])

\* the two markdown lines appended for the image with index img_idx
SuryaImageMarkdown(page_num, img_idx, pix) ==
    NL \o <<"!", "[", "I", "m", "a", "g", "e", " ">> \o IntToStr(img_idx + 1) \o <<"]", "(", "i", "m", "a", "g", "e", "_">> \o IntToStr(page_num) \o <<"_">>
       \o IntToStr(img_idx) \o <<".", "p", "n", "g", ")">> \o NL
       \o <<"*", "I", "m", "a", "g", "e", ":", " ">> \o IntToStr(pix.width) \o <<"x">> \o IntToStr(pix.height) \o <<" ", "p", "i", "x", "e", "l", "s", "*">> \o NLNL

SuryaImageFrags(page, page_num) ==
    LET done == ImagesDone(page)
    IN Concat([i \in 1..Len(done) |->
        IF done[i].width < SmallImageLimit \/ done[i].height < SmallImageLimit THEN <<>>
        ELSE <<Frag(page_num, "image", SuryaImageMarkdown(page_num, i - 1, done[i]))>>])

ScannedTextLimit == 50

IsScannedPage(page) == Len(Strip(PageText(page))) < ScannedTextLimit

T_ScannedContent == <<"[", "S", "c", "a", "n", "n", "e", "d", " ", "c", "o", "n", "t", "e", "n", "t", " ", "d", "e", "t", "e", "c", "t", "e", "d", " ", "-", " ", "O", "C", "R", " ", "p", "r", "o", "c", "e", "s", "s", "i", "n", "g", " ", "r", "e", "c", "o", "m", "m", "e", "n", "d", "e", "d", "]">>
T_ScannedMarkdown == <<"[", "S", "c", "a", "n", "n", "e", "d", " ", "p", "a", "g", "e", " ", "-", " ", "O", "C", "R", " ", "n", "e", "e", "d", "e", "d", "]">>

\* a scanned page that is given no placeholder
ScannedPlaceholderNever(page, page_num) == <<>>

\* the else clause of the try around the image loop of a scanned page: it runs
\* whenever the image loop did not raise
ScannedPlaceholder(page, page_num) ==
    IF ImagesRaise(page) THEN <<>>
    ELSE << [id |-> "page_" \o ToString(page_num) \o "_scanned",
             type |-> "text",
             content |-> T_ScannedContent,
             bbox |-> [x1 |-> 0, y1 |-> 0, x2 |-> 612, y2 |-> 792, page |-> page_num],
             confidence |-> 50,
             language |-> "unknown"] >>

\* one iteration of the page loop of SuryaPipeline._fallback_extraction
SuryaPageElements(page, page_num) ==
    IF IsScannedPage(page)
    THEN SuryaBlockElements(page, page_num, 75, "unknown")
         \o SuryaImageElements(page, page_num) \o ScannedPlaceholder(page, page_num)
    ELSE SuryaBlockElements(page, page_num, 80, "en") \o SuryaImageElements(page, page_num)

SuryaPageMarkdown(page, page_num) ==
    LET bs == SuryaBlockElements(page, page_num, 0, "")
    IN <<Frag(page_num, "header", PageHeader(page_num))>>
       \o [i \in 1..Len(bs) |-> Frag(page_num, "block", bs[i].content \o NLNL)]
       \o SuryaImageFrags(page, page_num)
       \o (IF IsScannedPage(page) /\ ~ImagesRaise(page)
           THEN <<Frag(page_num, "block", T_ScannedMarkdown \o NLNL)>> ELSE <<>>)

SuryaFallbackEmptyAvg == 75

\* SuryaPipeline._fallback_extraction
SuryaFallbackExtraction(d, rejects) ==
    IF d.corrupt THEN PipelineFailure(OpenFailed)
    ELSE IF rejects THEN PipelineFailure(DocClosed)
    ELSE LET n == Len(d.pages)
             Extraction(elements) ==
                [markdown |-> Concat([k \in 1..n |-> SuryaPageMarkdown(d.pages[k], k - 1)]),
                 elements |-> elements,
                 metadata |-> [total_pages |-> n,
                               total_elements |-> Len(elements),
                               by_type |-> CountByType(elements),
                               confidence_avg |->
                                   ConfidenceAvg(elements, SuryaFallbackEmptyAvg),
                               languages_detected |-> {"en"},
                               model_version |-> "pymupdf_ocr_fallback_v1.0"],
                 success |-> TRUE]
         IN Extraction(Concat([k \in 1..n |-> SuryaPageElements(d.pages[k], k - 1)]))

-----------------------------------------------------------------------------
(* models/surya_pipeline.py: extract() with the OCR engine loaded.  The engine *)
(* returns, for every page image, text lines, a layout and a reading order.    *)

T_Line == <<"Q", "x">>

\* a text line of the OCR result; the confidence and language attributes may be absent
TextLine(t, bbox) == [text |-> t, bbox |-> bbox]

L_Upper == TextLine(T_Line, <<72, 50, 300, 70>>)
L_Lower == WithConfidence(TextLine(T_Line, <<72, 300, 300, 320>>), 120)
L_Blank == WithConfidence(TextLine(T_Blank, <<72, 500, 300, 520>>), 60)
TextLineSet == {L_Upper, L_Lower, L_Blank}

MaxLines == 2

C_Title == <<"T", "i", "t", "l", "e">>
C_Table == <<"T", "a", "b", "l", "e">>
C_Figure == <<"F", "i", "g", "u", "r", "e">>
C_Chart == <<"C", "h", "a", "r", "t">>
C_Text == <<"T", "e", "x", "t">>

LayoutSet == {None,
              [bboxes |-> <<<<72, 40, 300, 80>>, <<72, 600, 540, 700>>>>,
               labels |-> <<C_Title, C_Table>>],
              [bboxes |-> <<<<72, 40, 540, 330>>, <<72, 290, 300, 330>>>>,
               labels |-> <<C_Text, C_Figure>>]}

OrderSet == {None,
             [bboxes |-> <<<<72, 290, 300, 330>>, <<72, 40, 300, 80>>>>],
             [bboxes |-> <<<<72, 40, 540, 330>>, <<72, 40, 300, 80>>>>],
             [bboxes |-> <<<<400, 40, 540, 80>>>>]}

SuryaEngineSet ==
    {[raises |-> TRUE, text_lines |-> <<>>, layout |-> None, order |-> None]} \cup
    {[raises |-> FALSE, text_lines |-> ls, layout |-> la, order |-> o] :
        ls \in SeqsUpTo(TextLineSet, MaxLines), la \in LayoutSet, o \in OrderSet}

\* ordered_lines: for each box of the reading order the first text line that
\* overlaps it; without a reading order, the lines sorted by y (a stable sort)
OrderedLines(out) ==
    LET lines == out.text_lines
        n == Len(lines)
    IN IF out.order # None /\ HasAttr(out.order, "bboxes")
       THEN Concat([i \in 1..Len(out.order.bboxes) |->
              LET hits == {j \in 1..n : BBoxOverlap(out.order.bboxes[i], lines[j].bbox)}
              IN IF hits = {} THEN <<>>
                 ELSE <<[order_idx |-> i - 1,
                         line |-> lines[CHOOSE j \in hits : \A k \in hits : j <= k]]>>])
       ELSE LET rank(i) == 1 + Cardinality({j \in 1..n :
                                 \/ lines[j].bbox[2] < lines[i].bbox[2]
                                 \/ lines[j].bbox[2] = lines[i].bbox[2] /\ j < i})
            IN [r \in 1..n |-> LET i == CHOOSE i \in 1..n : rank(i) = r
                               IN [order_idx |-> i - 1, line |-> lines[i]]]

SuryaLineId(page_num, order_idx) ==
    "page_" \o ToString(page_num) \o "_line_" \o ToString(order_idx)

SuryaLayoutId(page_num, i) ==
    "page_" \o ToString(page_num) \o "_layout_" \o ToString(i)

SuryaLineElements(out, page_num) ==
    LET Element(order_idx, text_line) ==
            IF Strip(text_line.text) = <<>> THEN <<>>
            ELSE << [id |-> SuryaLineId(page_num, order_idx),
                     type |-> ClassifyFromLayout(text_line.bbox, out.layout),
                     content |-> Strip(text_line.text),
                     bbox |-> BBoxDict(text_line.bbox, page_num),
                     confidence |-> IF HasAttr(text_line, "confidence")
                                    THEN text_line.confidence ELSE 90,
                     language |-> IF HasAttr(text_line, "language")
                                  THEN text_line.language ELSE "unknown"] >>
        Elements(ordered_lines) ==
            Concat([k \in 1..Len(ordered_lines) |->
                      Element(ordered_lines[k].order_idx, ordered_lines[k].line)])
    IN Elements(OrderedLines(out))

SuryaLineMarkdown(e) ==
    IF e.type = "title" THEN <<"#", " ">> \o e.content \o NLNL
    ELSE IF e.type = "header" THEN <<"#", "#", " ">> \o e.content \o NLNL
    ELSE IF e.type = "list" THEN <<"-", " ">> \o e.content \o NL
    ELSE e.content \o NLNL

SuryaLayoutElements(out, page_num) ==
    IF out.layout = None \/ ~HasAttr(out.layout, "bboxes") THEN <<>>
    ELSE Concat([i \in 1..Len(out.layout.bboxes) |->
           LET label == out.layout.labels[i]
           IN IF label \in {C_Table, C_Figure, C_Chart}
              THEN << [id |-> SuryaLayoutId(page_num, i - 1),
                       type |-> IF label = C_Table THEN "table" ELSE "image",
                       content |-> <<"[">> \o label \o <<" ", "d", "e", "t", "e", "c", "t", "e", "d", " ", "a", "t", " ", "l", "a", "y", "o", "u", "t", " ", "a", "n", "a", "l", "y", "s", "i", "s", "]">>,
                       bbox |-> BBoxDict(out.layout.bboxes[i], page_num),
                       confidence |-> 85,
                       language |-> "layout",
                       layout_type |-> label] >>
              ELSE <<>>])

SuryaEnginePageElements(out, page_num) ==
    SuryaLineElements(out, page_num) \o SuryaLayoutElements(out, page_num)

SuryaEnginePageMarkdown(out, page_num) ==
    LET Rendered(ls) ==
            <<Frag(page_num, "header", PageHeader(page_num))>>
            \o [i \in 1..Len(ls) |-> Frag(page_num, "block", SuryaLineMarkdown(ls[i]))]
    IN Rendered(SuryaLineElements(out, page_num))

SuryaEngineEmptyAvg == 90

\* the try block of SuryaPipeline.extract, the engine returning out for every page
SuryaEngineResult(d, out) ==
    LET n == Len(d.pages)
        Extraction(elements) ==
            [markdown |-> Concat([k \in 1..n |-> SuryaEnginePageMarkdown(out, k - 1)]),
             elements |-> elements,
             metadata |-> [total_pages |-> n,
                           total_elements |-> Len(elements),
                           by_type |-> CountByType(elements),
                           confidence_avg |-> ConfidenceAvg(elements, SuryaEngineEmptyAvg),
                           languages_detected |->
                               {elements[i].language : i \in 1..Len(elements)},
                           model_version |-> "surya_v1.0"],
             success |-> TRUE]
    IN Extraction(Concat([k \in 1..n |-> SuryaEnginePageElements(out, k - 1)]))

\* SuryaPipeline.extract: the result and the singleton's initialized flag after it
SuryaExtract(d, e, init) ==
    LET init1 == IF init THEN TRUE ELSE Initialize(e.importOk)
    IN [initialized |-> init1,
        result |-> IF ~init1 \/ d.corrupt \/ e.surya.raises
                   THEN SuryaFallbackExtraction(d, e.rejectsClosed)
                   ELSE SuryaEngineResult(d, e.surya)]

-----------------------------------------------------------------------------
(* modal_app.py: the two PyMuPDF extractors of the handler *)

\* the text blocks the flat loops emit: (block_idx, stripped text, bbox)
FlatBlocks(page) ==
    Concat([i \in 1..Len(page.blocks) |->
        IF page.blocks[i].haslines /\ Strip(BlockTextFlat(page.blocks[i])) # <<>>
        THEN << [block_idx |-> i - 1,
                 text |-> Strip(BlockTextFlat(page.blocks[i])),
                 bbox |-> page.blocks[i].bbox] >>
        ELSE <<>>])

PyMuPDFBlockElements(page, page_num, conf) ==
    LET bs == FlatBlocks(page)
    IN [i \in 1..Len(bs) |->
          [id |-> DoclingBlockId(page_num, bs[i].block_idx),
           type |-> "text",
           content |-> bs[i].text,
           bbox |-> BBoxDict(bs[i].bbox, page_num),
           confidence |-> conf]]

BasicConfidence == 85

\* process_with_pymupdf_basic; it raises when fitz.open does, or when the handle
\* rejects len(doc) after doc.close()
ProcessWithPyMuPDFBasic(d, rejects) ==
    IF d.corrupt THEN Raise(OpenFailed)
    ELSE IF rejects THEN Raise(DocClosed)
    ELSE LET n == Len(d.pages)
             Extraction(elements) ==
                [markdown |-> [k \in 1..n |->
                                 Frag(k - 1, "page", PageHeader(k - 1) \o PageText(d.pages[k]))],
                 elements |-> elements,
                 metadata |-> [total_pages |-> n,
                               total_elements |-> Len(elements),
                               confidence_avg |-> Const(BasicConfidence),
                               by_type |-> [t \in {"text"} |-> Len(elements)],
                               model_version |-> "pymupdf_basic_v1.0"],
                 success |-> TRUE]
         IN Extraction(Concat([k \in 1..n |->
                          PyMuPDFBlockElements(d.pages[k], k - 1, BasicConfidence)]))

\* str(x) of a list of lists of str
PyReprRow(row) ==
    <<"[">> \o Join(<<",", " ">>, [i \in 1..Len(row) |-> <<"'">> \o row[i] \o <<"'">>]) \o <<"]">>
PyRepr(table_data) ==
    <<"[">> \o Join(<<",", " ">>, [i \in 1..Len(table_data) |-> PyReprRow(table_data[i])])
            \o <<"]">>

AdvancedTableElements(page, page_num) ==
    LET done == TablesDone(page)
    IN Concat([i \in 1..Len(done) |->
        IF done[i].data # <<>>
        THEN << [id |-> DoclingTableId(page_num, i - 1),
                 type |-> "table",
                 content |-> PyRepr(done[i].data),
                 bbox |-> BBoxDict(done[i].bbox, page_num),
                 confidence |-> 85] >>
        ELSE <<>>])

\* the markdown of a table in process_with_pymupdf_advanced
AdvancedTableMarkdown(table_data) ==
    LET headers == table_data[1]
        rows == SelectSeq(Tail(table_data), LAMBDA row : Len(row) = Len(headers))
    IN NL \o FormatRow(headers)
          \o FormatRow([i \in 1..Len(headers) |-> <<"-", "-", "-">>])
          \o Concat([i \in 1..Len(rows) |-> FormatRow(rows[i])]) \o NL

AdvancedPageMarkdown(page, page_num) ==
    LET bs == FlatBlocks(page)
        done == SelectSeq(TablesDone(page), LAMBDA t : t.data # <<>>)
    IN <<Frag(page_num, "header", PageHeader(page_num))>>
       \o [i \in 1..Len(bs) |-> Frag(page_num, "block", bs[i].text \o NLNL)]
       \o [i \in 1..Len(done) |-> Frag(page_num, "table", AdvancedTableMarkdown(done[i].data))]

AdvancedEmptyAvg == 87

\* process_with_pymupdf_advanced
ProcessWithPyMuPDFAdvanced(d, rejects) ==
    IF d.corrupt THEN Raise(OpenFailed)
    ELSE IF rejects THEN Raise(DocClosed)
    ELSE LET n == Len(d.pages)
             Extraction(elements) ==
                [markdown |-> Concat([k \in 1..n |->
                                        AdvancedPageMarkdown(d.pages[k], k - 1)]),
                 elements |-> elements,
                 metadata |-> [total_pages |-> n,
                               total_elements |-> Len(elements),
                               confidence_avg |-> ConfidenceAvg(elements, AdvancedEmptyAvg),
                               by_type |-> CountByType(elements),
                               model_version |-> "pymupdf_advanced_v1.0"],
                 success |-> TRUE]
         IN Extraction(Concat([k \in 1..n |->
                          PyMuPDFBlockElements(d.pages[k], k - 1, 90)
                          \o AdvancedTableElements(d.pages[k], k - 1)]))

\* the result the handler stores when processing a model raised
HandlerFailure(msg, model_name) ==
    [markdown |-> <<>>, elements |-> <<>>,
     metadata |-> [total_pages |-> 0, total_elements |-> 0, confidence_avg |-> Const(0)],
     success |-> FALSE, error |-> msg, model |-> model_name]

ModalModels == {"docling", "surya", "mineru", "pymupdf_basic", "pymupdf_advanced"}

\* the body of the model loop of process_extraction for a recognised model_name:
\* the pipelines' initialized flags after it and the entry stored in results
ModalProcess(model_name, d, e, init) ==
    LET Stored(run) ==
            [initialized |-> IF model_name \in DOMAIN init
                             THEN [init EXCEPT ![model_name] = run.initialized] ELSE init,
             entry |-> IF Raised(run.result) THEN HandlerFailure(run.result.exc, model_name)
                       ELSE run.result @@ [model |-> model_name]]
    IN Stored(IF model_name = "docling" THEN DoclingExtract(d, e, init.docling)
              ELSE IF model_name = "surya" THEN SuryaExtract(d, e, init.surya)
              ELSE IF model_name = "mineru" THEN MinerUExtract(d, e, init.mineru)
              ELSE IF model_name = "pymupdf_basic"
                   THEN [initialized |-> FALSE,
                         result |-> ProcessWithPyMuPDFBasic(d, e.rejectsClosed)]
              ELSE [initialized |-> FALSE,
                    result |-> ProcessWithPyMuPDFAdvanced(d, e.rejectsClosed)])

-----------------------------------------------------------------------------
(* modal_app_unified.py *)

\* round(x, 2) of num/den hundredths: the nearest hundredth, a tie to the even one
Round2(f) ==
    LET q == f.num \div f.den
        r == f.num % f.den
    IN Const(IF 2 * r < f.den THEN q
             ELSE IF 2 * r > f.den THEN q + 1
             ELSE IF q % 2 = 0 THEN q ELSE q + 1)

\* df.to_markdown(index=False) of table.to_pandas(): the first row of the grid is
\* the header; cells are not padded here
PandasRow(row) == <<"|", " ">> \o Join(<<" ", "|", " ">>, row) \o <<" ", "|">>

PandasMarkdown(data) ==
    Join(NL, <<PandasRow(data[1]), PandasRow([i \in 1..Len(data[1]) |-> <<":", "-", "-">>])>>
             \o [i \in 1..(Len(data) - 1) |-> PandasRow(data[i + 1])])

\* ElementInfo: the fields are type, content, bbox, page and confidence
ElementInfo(type, content, bbox, page, confidence) ==
    [type |-> type, content |-> content, bbox |-> bbox, page |-> page,
     confidence |-> confidence]

UnifiedHeaderWords == {<<"c", "h", "a", "p", "t", "e", "r">>, <<"s", "e", "c", "t", "i", "o", "n">>, <<"i", "n", "t", "r", "o", "d", "u", "c", "t", "i", "o", "n">>, <<"c", "o", "n", "c", "l", "u", "s", "i", "o", "n">>}
UnifiedListPrefixes == {<<"U+2022">>, <<"-">>, <<"*">>, <<"1", ".">>, <<"2", ".">>,
                        <<"a", ")">>, <<"i", ")">>}

\* _classify_docling_style
ClassifyDoclingStyle(text, bbox, page_rect) ==
    LET text_lower == Strip(Lower(text))
    IN IF Len(text_lower) < 100 /\ 10 * bbox[2] < 2 * page_rect.height THEN "title"
       ELSE IF \E word \in UnifiedHeaderWords : Contains(text_lower, word) THEN "header"
       ELSE IF \E p \in UnifiedListPrefixes : StartsWith(text_lower, p) THEN "list"
       ELSE "text"

UnifiedEquationSymbols ==
    {"=", "U+2211", "U+220F", "U+222B", "U+2202", "U+2207", "U+00B1", "U+2264", "U+2265",
     "U+2260", "U+2248", "U+221D", "U+2208", "U+2209", "U+2282", "U+2283", "U+222A",
     "U+2229"}

UnifiedSectionWords == {<<"a", "b", "s", "t", "r", "a", "c", "t">>, <<"m", "e", "t", "h", "o", "d", "o", "l", "o", "g", "y">>, <<"r", "e", "s", "u", "l", "t", "s">>, <<"d", "i", "s", "c", "u", "s", "s", "i", "o", "n">>, <<"r", "e", "f", "e", "r", "e", "n", "c", "e", "s">>}

\* _classify_scientific_style
ClassifyScientificStyle(text) ==
    LET n == Len(text)
        text_lower == Strip(Lower(text))
    IN IF \/ \E i \in 1..n : text[i] \in UnifiedEquationSymbols
          \/ \E i \in 1..n :                                \* \\[a-zA-Z]+\{
                /\ text[i] = "\\"
                /\ \E j \in (i + 1)..(n - 1) :
                      AllIn(text, i + 1, j, Letters) /\ text[j + 1] = "{"
          \/ \E i \in 1..n :                                \* \$.*?\$
                /\ text[i] = "$"
                /\ \E j \in (i + 1)..n :
                      text[j] = "$" /\ NoneIn(text, i + 1, j - 1, {"\n"})
       THEN "equation"
       ELSE IF \/ \E i \in 1..n, j \in 1..n : BracketMatch(text, i, j)
               \/ \E i \in 1..n, j \in 1..n : ParenMatch(text, i, j)
               \/ Contains(text, <<"e", "t", " ", "a", "l", ".">>)
               \/ Contains(text, <<"i", "b", "i", "d", ".">>)
       THEN "citation"
       ELSE IF \E word \in UnifiedSectionWords : Contains(text_lower, word) THEN "header"
       ELSE "text"

\* _count_elements_by_type
CountElementsByType(elements) == CountByType(elements)

\* the type and confidence _enhanced_pymupdf_extraction gives a text block
EnhancedBlockType(model, block_text, bbox, page) ==
    IF model = "docling" THEN ClassifyDoclingStyle(block_text, bbox, page)
    ELSE IF model = "mineru" THEN ClassifyScientificStyle(block_text)
    ELSE "text"

EnhancedBlockConfidence(model, type) ==
    IF model = "docling" THEN (IF type # "text" THEN 92 ELSE 88)
    ELSE IF model = "mineru" THEN (IF type \in {"equation", "citation"} THEN 94 ELSE 89)
    ELSE 91

EnhancedBlockElements(model, page, page_num) ==
    LET Element(b, type) ==
            ElementInfo(type, b.text, b.bbox, page_num + 1,
                        EnhancedBlockConfidence(model, type))
        Elements(bs) ==
            [i \in 1..Len(bs) |->
                Element(bs[i], EnhancedBlockType(model,
                                   BlockTextFlat(page.blocks[bs[i].block_idx + 1]),
                                   bs[i].bbox, page))]
    IN Elements(FlatBlocks(page))

\* the table loop of the docling branch: one try around the whole loop
EnhancedTableElements(model, page, page_num) ==
    IF model # "docling" THEN <<>>
    ELSE LET done == TablesDone(page)
         IN Concat([i \in 1..Len(done) |->
              IF done[i].data # <<>>
              THEN <<ElementInfo("table", PandasMarkdown(done[i].data), done[i].bbox,
                                 page_num + 1, 90)>>
              ELSE <<>>])

\* the full_text entries of a page: an element's text, a table's between newlines
FullTextOf(e) == IF e.type = "table" THEN NL \o e.content \o NL ELSE e.content

\* "\n\n".join(full_text): an entry for every element that appended to full_text,
\* with the page that appended it
JoinFrags(texts) ==
    [i \in 1..Len(texts) |->
        Frag(texts[i].page - 1, "entry",
             (IF i = 1 THEN <<>> ELSE NLNL) \o FullTextOf(texts[i]))]

EnhancedEmptyAvg == 90

HTTPException(status_code, detail) == Raise(detail) @@ [status_code |-> status_code]

\* _enhanced_pymupdf_extraction: an ExtractionResult or the HTTPException it raises
EnhancedPyMuPDFExtraction(d, model) ==
    IF d.corrupt THEN HTTPException(500, OpenFailed)
    ELSE LET n == Len(d.pages)
             Extraction(elements) ==
                [markdown |-> JoinFrags(elements),
                 elements |-> elements,
                 metadata |-> [total_pages |-> n,
                               total_elements |-> Len(elements),
                               confidence_avg |->
                                   Round2(ConfidenceAvg(elements, EnhancedEmptyAvg)),
                               model_used |-> model,
                               by_type |-> CountElementsByType(elements)],
                 model |-> model]
         IN Extraction(Concat([k \in 1..n |->
                          EnhancedBlockElements(model, d.pages[k], k - 1)
                          \o EnhancedTableElements(model, d.pages[k], k - 1)]))

\* the table loop of the pymupdf_advanced branch: a try around each table, a
\* placeholder for a table whose extraction raises; none if find_tables raises
UnifiedTableElements(page, page_num) ==
    IF page.tables.raises THEN <<>>
    ELSE Concat([i \in 1..Len(page.tables.list) |->
           LET table == page.tables.list[i]
           IN IF TableRaises(table)
              THEN <<ElementInfo("table",
                                 <<"[", "T", "a", "b", "l", "e", " ", "d", "e", "t", "e", "c", "t", "e", "d", " ", "o", "n", " ", "p", "a", "g", "e", " ">> \o IntToStr(page_num + 1) \o <<"]">>,
                                 table.bbox, page_num + 1, 70)
                     @@ [placeholder |-> TRUE]>>
              ELSE IF table.data # <<>>
              THEN <<ElementInfo("table", PandasMarkdown(table.data), table.bbox,
                                 page_num + 1, 85)>>
              ELSE <<>>])

\* the image loop of the pymupdf_advanced branch: a try around each image
UnifiedImageElements(page, page_num) ==
    IF page.images.raises THEN <<>>
    ELSE [i \in 1..Len(page.images.list) |->
           LET label == <<"[", "I", "m", "a", "g", "e", " ">> \o IntToStr(i) \o <<" ", "o", "n", " ", "p", "a", "g", "e", " ">> \o IntToStr(page_num + 1)
           IN IF ImageRaises(page.images.list[i])
              THEN ElementInfo("image", label \o <<" ", "-", " ", "e", "x", "t", "r", "a", "c", "t", "i", "o", "n", " ", "f", "a", "i", "l", "e", "d", "]">>,
                               <<0, 0, page.width, page.height>>, page_num + 1, 70)
                   @@ [placeholder |-> TRUE]
              ELSE ElementInfo("image", label \o <<"]">>,
                               <<0, 0, page.width, page.height>>, page_num + 1, 90)]

UnifiedAdvancedPageElements(page, page_num) ==
    LET bs == FlatBlocks(page)
    IN [i \in 1..Len(bs) |-> ElementInfo("text", bs[i].text, bs[i].bbox, page_num + 1, 95)]
       \o UnifiedTableElements(page, page_num) \o UnifiedImageElements(page, page_num)

UnifiedBasicPageElements(page, page_num) ==
    IF Strip(PageText(page)) # <<>>
    THEN <<ElementInfo("text", Strip(PageText(page)), <<0, 0, page.width, page.height>>,
                       page_num + 1, 90)>>
    ELSE <<>>

\* the elements that also append to full_text: all but the images and the
\* placeholders
UnifiedTexts(es) ==
    SelectSeq(es, LAMBDA e : e.type # "image" /\ ~HasAttr(e, "placeholder"))

DropGhost(e) == [f \in DOMAIN e \ {"placeholder"} |-> e[f]]

\* extract_text_with_positions: an ExtractionResult or the HTTPException it raises
ExtractTextWithPositions(d, model) ==
    IF model \in {"docling", "surya", "mineru"} THEN EnhancedPyMuPDFExtraction(d, model)
    ELSE IF d.corrupt THEN HTTPException(500, OpenFailed)
    ELSE LET n == Len(d.pages)
             Extraction(all, elements) ==
                [markdown |-> JoinFrags(UnifiedTexts(all)),
                 elements |-> elements,
                 metadata |-> [total_pages |-> n,
                               total_elements |-> Len(elements),
                               confidence_avg |-> Round2(ConfidenceAvg(elements, 0)),
                               model_used |-> model],
                 model |-> model]
             Collected(all) == Extraction(all, [i \in 1..Len(all) |-> DropGhost(all[i])])
         IN Collected(Concat([k \in 1..n |->
                         IF model = "pymupdf_advanced"
                         THEN UnifiedAdvancedPageElements(d.pages[k], k - 1)
                         ELSE UnifiedBasicPageElements(d.pages[k], k - 1)]))

\* AVAILABLE_MODELS
AvailableModels == {"docling", "surya", "mineru"}

\* the body of the model loop of the unified extract_content: the entry stored in
\* results, or the exception that leaves the loop
UnifiedProcess(model, d) ==
    IF model \notin AvailableModels THEN HTTPException(400, "Model not available")
    ELSE ExtractTextWithPositions(d, model)

-----------------------------------------------------------------------------
(* modal_app_production.py *)

\* classify_element
ClassifyElement(font_size, bbox, page_rect) ==
    IF font_size > 20 THEN "title"
    ELSE IF font_size > 16 THEN "header"
    ELSE IF font_size > 14 THEN "subheader"
    ELSE IF 10 * bbox[2] < page_rect.height THEN "header"
    ELSE IF 10 * bbox[2] > 9 * page_rect.height THEN "footer"
    ELSE "text"

Max(a, b) == IF a >= b THEN a ELSE b

\* the spans of a block, line by line (a span's bbox is taken to be its block's)
BlockSpans(block) == Concat(block.lines)

\* the elements of the text blocks of a page: one per span that is not blank
ProductionSpanElements(page, page_num) ==
    Concat([i \in 1..Len(page.blocks) |->
        LET block == page.blocks[i]
            spans == SelectSeq(BlockSpans(block), LAMBDA sp : Strip(sp.text) # <<>>)
        IN [k \in 1..Len(spans) |->
              [type |-> ClassifyElement(spans[k].size, block.bbox, page),
               content |-> Strip(spans[k].text),
               bbox |-> block.bbox,
               page |-> page_num,
               confidence |-> 95,
               font_size |-> spans[k].size]]])

\* line_text.strip() of a line: the stripped spans that are not blank, each
\* followed by a space
ProductionLineText(line) ==
    Strip(Concat([k \in 1..Len(line) |->
            IF Strip(line[k].text) # <<>> THEN Strip(line[k].text) \o <<" ">> ELSE <<>>]))

ProductionBlockText(block) ==
    Concat([l \in 1..Len(block.lines) |->
        IF ProductionLineText(block.lines[l]) # <<>>
        THEN ProductionLineText(block.lines[l]) \o NL ELSE <<>>])

RECURSIVE MaxSize(_)
MaxSize(spans) == IF Len(spans) = 1 THEN spans[1].size
                  ELSE Max(spans[1].size, MaxSize(Tail(spans)))

\* the markdown_content entries of the text blocks of a page
ProductionBlockMarkdown(page) ==
    Concat([i \in 1..Len(page.blocks) |->
        LET block == page.blocks[i]
            block_text == ProductionBlockText(block)
        IN IF block.haslines /\ Strip(block_text) # <<>>
           THEN LET element_type == ClassifyElement(MaxSize(BlockSpans(block)), block.bbox, page)
                IN << (IF element_type = "title" THEN <<"#", " ">>
                       ELSE IF element_type = "header" THEN <<"#", "#", " ">>
                       ELSE IF element_type = "subheader" THEN <<"#", "#", "#", " ">>
                       ELSE <<>>) \o Strip(block_text) >>
           ELSE <<>>])

\* extract_tables_from_page: one try around the whole loop; the tables appended
\* before the first one whose to_pandas raises are returned
ExtractTablesFromPage(page, page_num) ==
    LET done == TablesDone(page)
    IN [i \in 1..Len(done) |->
          [table_id |-> i - 1,
           elements |-> Concat([r \in 1..(Len(done[i].data) - 1) |->
                          [c \in 1..Len(done[i].data[r + 1]) |->
                             [type |-> "table_cell",
                              content |-> done[i].data[r + 1][c],
                              bbox |-> <<0, 0, 0, 0>>,
                              page |-> page_num,
                              confidence |-> 90,
                              table_id |-> i - 1, row |-> r - 1, column |-> c - 1]]]),
           markdown |-> NL \o (IF done[i].data # <<>> THEN PandasMarkdown(done[i].data)
                               ELSE <<>>) \o NL]]

\* extract_images_from_page: one try around the whole loop; GRAY or RGB pixmaps only
ExtractImagesFromPage(page, page_num) ==
    LET done == ImagesDone(page)
    IN Concat([i \in 1..Len(done) |->
        IF done[i].n < 4
        THEN << [type |-> "image",
                 content |-> <<"I", "m", "a", "g", "e", " ">> \o IntToStr(i),
                 bbox |-> <<0, 0, done[i].width, done[i].height>>,
                 page |-> page_num,
                 confidence |-> 100,
                 image_id |-> IntToStr(page_num) \o <<"_">> \o IntToStr(i - 1),
                 width |-> done[i].width, height |-> done[i].height] >>
        ELSE <<>>])

ProductionImageMarkdown(img) ==
    <<"!", "[", "I", "m", "a", "g", "e", " ">> \o img.image_id \o <<"]", "(", "i", "m", "a", "g", "e", "_">> \o img.image_id \o <<".", "p", "n", "g", ")">>

\* one entry of results["pages"] of extract_text_with_positions
ProductionPage(page, page_num) ==
    LET PageData(tables, images) ==
            [page_num |-> page_num,
             elements |-> ProductionSpanElements(page, page_num)
                          \o Concat([i \in 1..Len(tables) |-> tables[i].elements])
                          \o images,
             markdown |-> Join(NLNL, ProductionBlockMarkdown(page)
                            \o [i \in 1..Len(tables) |-> tables[i].markdown]
                            \o [i \in 1..Len(images) |-> ProductionImageMarkdown(images[i])])]
    IN PageData(ExtractTablesFromPage(page, page_num), ExtractImagesFromPage(page, page_num))

\* extract_text_with_positions of the production app; fitz.open may raise
ProductionExtract(d) ==
    IF d.corrupt THEN Raise(OpenFailed)
    ELSE [pages |-> [k \in 1..Len(d.pages) |-> ProductionPage(d.pages[k], k - 1)],
          metadata |-> [total_pages |-> Len(d.pages)]]

\* str.strip() of the markdown, kept as fragments
RECURSIVE LStripFrags(_)
LStripFrags(md) ==
    IF md = <<>> THEN md
    ELSE IF LStrip(md[1].text) = <<>> THEN LStripFrags(Tail(md))
    ELSE <<[md[1] EXCEPT !.text = LStrip(@)]>> \o Tail(md)

RECURSIVE RStripFrags(_)
RStripFrags(md) ==
    IF md = <<>> THEN md
    ELSE IF RStrip(md[Len(md)].text) = <<>> THEN RStripFrags(SubSeq(md, 1, Len(md) - 1))
    ELSE SubSeq(md, 1, Len(md) - 1) \o <<[md[Len(md)] EXCEPT !.text = RStrip(@)]>>

StripFrags(md) == RStripFrags(LStripFrags(md))

\* process_with_docling of the production app
ProductionDocling(d) ==
    LET Result(extraction_result, pages, all_elements) ==
            [markdown |-> StripFrags(Concat([k \in 1..Len(pages) |->
                             <<Frag(k - 1, "header", PageHeader(k - 1)),
                               Frag(k - 1, "page", pages[k].markdown)>>])),
             elements |-> all_elements,
             metadata |-> extraction_result.metadata @@
                          [total_elements |-> Len(all_elements),
                           confidence_avg |-> Const(95),
                           pages_processed |-> Len(pages)]]
        Combined(extraction_result, pages) ==
            Result(extraction_result, pages,
                   Concat([k \in 1..Len(pages) |-> pages[k].elements]))
        Processed(extraction_result) ==
            IF Raised(extraction_result) THEN extraction_result
            ELSE Combined(extraction_result, extraction_result.pages)
    IN Processed(ProductionExtract(d))

ProductionModels == {"docling", "surya", "mineru", "omnidocs"}

\* process_with_surya, process_with_mineru, process_with_omnidocs: the docling
\* result with confidence_avg overwritten
ProductionProcess(model_name, d) ==
    LET avg == IF model_name = "docling" THEN 95
               ELSE IF model_name = "surya" THEN 92
               ELSE IF model_name = "mineru" THEN 90 ELSE 97
        Overwritten(result) ==
            IF Raised(result) THEN result
            ELSE [result EXCEPT !.metadata.confidence_avg = Const(avg)]
                 @@ [model |-> model_name]
    IN Overwritten(ProductionDocling(d))

-----------------------------------------------------------------------------
(* The requests, and what lies outside the core during a request *)

Env(rejects, importOk, docling, surya) ==
    [rejectsClosed |-> rejects, importOk |-> importOk, docling |-> docling, surya |-> surya]

\* the engines' packages are not installed: every pipeline runs its fallback
FallbackEnvs == {Env(r, FALSE, [raises |-> TRUE, items |-> <<>>],
                     [raises |-> TRUE, text_lines |-> <<>>, layout |-> None, order |-> None])
                    : r \in BOOLEAN}

Request(a, u, ms, d, e) == [app |-> a, upload |-> u, models |-> ms, doc |-> d, env |-> e]

ModelNames == {"docling", "surya", "pymupdf_basic", "omnidocs", "gpt"}
Apps == {"modal", "unified", "production"}

SimpleDoc == Doc(<<Page(<<B_Mid>>, NoTables, NoImages)>>)

\* requests that exercise the handlers: any list of model names, any upload
HandlerRequests ==
    {Request(a, u, ms, d, e) :
        a \in Apps, u \in {"none", "nofile", "stored"},
        ms \in SeqsUpTo(ModelNames, MaxModels), d \in {CorruptDoc, SimpleDoc},
        e \in FallbackEnvs}

AppModels == {<<"modal", m>> : m \in ModalModels}
             \cup {<<"unified", m>> : m \in AvailableModels}
             \cup {<<"production", m>> : m \in ProductionModels}
             \cup {<<"annotate", m>> : m \in {"pymupdf_advanced", "pymupdf_basic"}}

\* requests that exercise the extraction: one model, any document
ExtractionRequests ==
    {Request(am[1], "stored", <<am[2]>>, d, e) :
        am \in AppModels, d \in DocSet, e \in FallbackEnvs}

EngineDocs == {CorruptDoc, Doc(<<EmptyPage>>), Doc(<<EmptyPage, EmptyPage>>)}

\* requests served with the engines loaded
EngineRequests ==
    {Request("modal", "stored", <<"docling">>, d,
             Env(FALSE, TRUE, out, [raises |-> TRUE, text_lines |-> <<>>,
                                    layout |-> None, order |-> None])) :
        d \in EngineDocs, out \in DoclingEngineSet}
    \cup
    {Request("modal", "stored", <<"surya">>, d,
             Env(FALSE, TRUE, [raises |-> TRUE, items |-> <<>>], out)) :
        d \in EngineDocs, out \in SuryaEngineSet}
    \cup
    {Request("modal", "stored", <<"mineru">>, d,
             Env(FALSE, TRUE, [raises |-> TRUE, items |-> <<>>],
                 [raises |-> TRUE, text_lines |-> <<>>, layout |-> None, order |-> None])) :
        d \in EngineDocs}

Requests == HandlerRequests \cup ExtractionRequests \cup EngineRequests

NoRequest == Request("none", "none", <<>>, CorruptDoc,
                     Env(FALSE, FALSE, [raises |-> TRUE, items |-> <<>>],
                         [raises |-> TRUE, text_lines |-> <<>>, layout |-> None,
                          order |-> None]))

NoResults == <<>>
NoCall == [fn |-> "none"]
NoResponse == [status_code |-> 0]

Put(dict, key, value) ==
    [k \in DOMAIN dict \cup {key} |-> IF k = key THEN value ELSE dict[k]]

-----------------------------------------------------------------------------
(* The handlers *)

\* no request is being served
Idle ==
    /\ pc = "idle"
    /\ app = NoRequest.app /\ upload = NoRequest.upload /\ models = NoRequest.models
    /\ doc = NoRequest.doc /\ env = NoRequest.env
    /\ idx = 0
    /\ results = NoResults
    /\ response = NoResponse
    /\ initialized = [docling |-> FALSE, surya |-> FALSE, mineru |-> FALSE]
    /\ served = 0

Init == Idle /\ call = NoCall

\* a request arrives at one of the services
Receive ==
    /\ pc = "idle"
    /\ served < MaxRequests
    /\ \E r \in Requests :
          /\ app' = r.app /\ upload' = r.upload /\ models' = r.models
          /\ doc' = r.doc /\ env' = r.env
    /\ pc' = "received"
    /\ idx' = 0
    /\ results' = NoResults
    /\ response' = NoResponse
    /\ UNCHANGED <<initialized, served, call>>

\* the handler's response when an HTTPException leaves it
ErrorResponse(status_code, detail) == [status_code |-> status_code, detail |-> detail]

\* the checks before the model loop.  modal_app.py raises its 400 and 404 inside
\* the try whose except clause turns every exception into a 500; the production
\* app re-raises an HTTPException; the unified app checks outside its try
Validate ==
    /\ pc = "received"
    /\ IF app = "modal" /\ upload = "none"
       THEN /\ response' = ErrorResponse(500, "Upload ID required")
            /\ pc' = "responded" /\ idx' = idx
       ELSE IF upload # "stored"
       THEN /\ response' = ErrorResponse(IF app = "modal" THEN 500 ELSE 404, "File not found")
            /\ pc' = "responded" /\ idx' = idx
       ELSE /\ response' = response
            /\ pc' = "loop" /\ idx' = 1
    /\ UNCHANGED <<app, upload, models, doc, env, results, initialized, served, call>>

\* one iteration of the model loop of process_extraction (modal_app.py)
ModalStep ==
    /\ pc = "loop" /\ app = "modal" /\ idx <= Len(models)
    /\ LET model_name == models[idx]
           Store(run) == /\ results' = Put(results, model_name, run.entry)
                         /\ initialized' = run.initialized
       IN IF model_name \notin ModalModels
          THEN UNCHANGED <<results, initialized>>
          ELSE Store(ModalProcess(model_name, doc, env, initialized))
    /\ idx' = idx + 1
    /\ UNCHANGED <<pc, app, upload, models, doc, env, response, served, call>>

\* one iteration of the model loop of extract_content (modal_app_unified.py); an
\* exception leaves the loop and the handler answers 500
UnifiedStep ==
    /\ pc = "loop" /\ app = "unified" /\ idx <= Len(models)
    /\ LET Store(result) ==
              IF Raised(result)
              THEN /\ response' = ErrorResponse(500, result.exc)
                   /\ pc' = "responded"
                   /\ UNCHANGED <<results, idx>>
              ELSE /\ results' = Put(results, models[idx], result)
                   /\ idx' = idx + 1
                   /\ UNCHANGED <<pc, response>>
       IN Store(UnifiedProcess(models[idx], doc))
    /\ UNCHANGED <<app, upload, models, doc, env, initialized, served, call>>

\* one iteration of the model loop of extract_content (modal_app_production.py):
\* no try inside the loop, an exception leaves the handler as a 500
ProductionStep ==
    /\ pc = "loop" /\ app = "production" /\ idx <= Len(models)
    /\ IF models[idx] \notin ProductionModels
       THEN /\ idx' = idx + 1
            /\ UNCHANGED <<pc, results, response>>
       ELSE LET Store(result) ==
                   IF Raised(result)
                   THEN /\ response' = ErrorResponse(500, result.exc)
                        /\ pc' = "responded"
                        /\ UNCHANGED <<results, idx>>
                   ELSE /\ results' = Put(results, models[idx], result)
                        /\ idx' = idx + 1
                        /\ UNCHANGED <<pc, response>>
            IN Store(ProductionProcess(models[idx], doc))
    /\ UNCHANGED <<app, upload, models, doc, env, initialized, served, call>>

\* get_annotated_image (modal_app_unified.py): the extraction it runs first is
\* kept in results; the response is the image or a 500
AnnotateStep ==
    /\ pc = "loop" /\ app = "annotate" /\ idx <= Len(models)
    /\ LET Store(result) ==
              IF Raised(result)
              THEN /\ response' = ErrorResponse(500, result.exc)
                   /\ UNCHANGED results
              ELSE /\ results' = Put(results, models[idx], result)
                   /\ response' = [status_code |-> 200, media_type |-> "image/png"]
       IN Store(ExtractTextWithPositions(doc, models[idx]))
    /\ pc' = "responded"
    /\ UNCHANGED <<app, upload, models, doc, env, idx, initialized, served, call>>

\* the loop is over: the handler returns the results
Respond ==
    /\ pc = "loop" /\ app \in Apps /\ idx > Len(models)
    /\ response' = [status_code |-> 200, results |-> results, status |-> "completed"]
    /\ pc' = "responded"
    /\ UNCHANGED <<app, upload, models, doc, env, idx, results, initialized, served, call>>

\* the response is sent; only the pipeline singletons outlive the request
Finish ==
    /\ pc = "responded"
    /\ pc' = "idle"
    /\ app' = NoRequest.app /\ upload' = NoRequest.upload /\ models' = NoRequest.models
    /\ doc' = NoRequest.doc /\ env' = NoRequest.env
    /\ idx' = 0
    /\ results' = NoResults
    /\ response' = NoResponse
    /\ served' = served + 1
    /\ UNCHANGED <<initialized, call>>

Next ==
    \/ Receive
    \/ Validate
    \/ ModalStep
    \/ UnifiedStep
    \/ ProductionStep
    \/ AnnotateStep
    \/ Respond
    \/ Finish

Spec == Init /\ [][Next]_vars

-----------------------------------------------------------------------------
(* The helper functions of the pipelines, called directly on arguments drawn   *)
(* from bounded sets: call holds the function, its argument and, once the call *)
(* has returned, its outcome.                                                  *)

MaxCols == 2
MaxRows == 2

Call(fn, arg) == [fn |-> fn, arg |-> arg, done |-> FALSE, out |-> None]

\* a cell grid as table.extract() returns it: a list of rows of str cells
CellSet == {<<"a">>, <<"U+2211">>}
RowSet == SeqsUpTo(CellSet, MaxCols)
GridSet == {<<>>} \cup {<<h>> \o rows : h \in RowSet, rows \in SeqsUpTo(RowSet, MaxRows)}

TableFormatters == {"_format_table_markdown", "_format_scientific_table"}

\* citation texts: a bracket of at most MaxRefChars characters, alone, after some
\* words, or before a second bracket
MaxRefChars == 4
RefChars == {"1", "3", "5", ",", "-", " "}
RefTexts ==
    {pre \o <<"[">> \o body \o <<"]">> \o post :
        pre \in {<<>>, <<"s", "e", "e", " ">>},
        body \in SeqsUpTo(RefChars, MaxRefChars),
        post \in {<<>>, <<"[", "5", "]">>}}

\* page rectangles and pixmap sizes for _estimate_image_bbox: pixmaps below,
\* at and above 80% of a page width and 60% of a page height
PageWidths == {1, 7, 595, 600}
PageHeights == {1, 9, 800, 842}
PixWidths == {1, 30, 476, 480, 481, 700}
PixHeights == {1, 40, 480, 505, 506, 900}
BBoxArgs ==
    {[page |-> [width |-> pw, height |-> ph], pix |-> [width |-> iw, height |-> ih]] :
        pw \in PageWidths, ph \in PageHeights, iw \in PixWidths, ih \in PixHeights}

\* blocks for the generic classifiers: a short text, a structural keyword, a
\* list marker and a text of 100 characters; at the top 10%, the top 20%,
\* above 200pt, mid-page and in the bottom 10% of an 800pt page; in each band
\* of font sizes
T_Chapter == <<"c", "h", "a", "p", "t", "e", "r">>
T_Item == <<"-", " ", "x">>
T_Hundred == [i \in 1..100 |-> "x"]
GenericTexts == {T_Q, T_Chapter, T_Item, T_Hundred}
GenericTops == {50, 100, 170, 300, 750}
FontSizes == {12, 15, 17, 22}
GenericClassifiers == {"classify_element", "_classify_block", "_classify_docling_style"}
GenericArgs ==
    {[text |-> t, bbox |-> <<72, y, 300, y + 20>>, font_size |-> fs,
      page_rect |-> [width |-> 600, height |-> 800]] :
        t \in GenericTexts, y \in GenericTops, fs \in FontSizes}

\* blocks for the scientific classifiers: a formula, a citation, a section
\* heading, a caption, a text that only mentions a table, texts matching two
\* rules at once, a short text and a text of 100 characters
T_SeeTable == <<"s", "e", "e", " ", "t", "a", "b", "l", "e">>
T_Figure == <<"f", "i", "g", "u", "r", "e", " ", "1">>
T_FormulaCite == T_Formula \o <<" ">> \o T_Cite
T_SectionCite == T_Abstract \o <<" ">> \o T_Cite
ScientificTexts == {T_Formula, T_Cite, T_Abstract, T_Figure, T_SeeTable, T_FormulaCite,
                    T_SectionCite, T_Q, T_Hundred}
ScientificTops == {100, 300}
ScientificClassifiers == {"_classify_scientific_block", "_classify_scientific_style"}
ScientificArgs ==
    {[text |-> t, bbox |-> <<72, y, 300, y + 20>>] : t \in ScientificTexts, y \in ScientificTops}

\* texts for _get_section_type: every keyword of the vocabulary, a heading
\* in capitals and a text with no keyword
T_Methodology == <<"M", "e", "t", "h", "o", "d", "o", "l", "o", "g", "y">>
SectionTexts == {AcademicSections[i] : i \in 1..Len(AcademicSections)} \cup {T_Methodology, T_Q}

HelperCalls ==
    {Call("_get_section_type", t) : t \in SectionTexts}
    \cup
    {Call(f, a) : f \in ScientificClassifiers, a \in ScientificArgs}
    \cup
    {Call(f, g) : f \in TableFormatters, g \in GridSet}
    \cup {Call("_extract_references", t) : t \in RefTexts}
    \cup {Call("_estimate_image_bbox", a) : a \in BBoxArgs}
    \cup {Call(f, a) : f \in GenericClassifiers, a \in GenericArgs}

HelperInit == Idle /\ call \in HelperCalls

Return(out) ==
    /\ call' = [call EXCEPT !.done = TRUE, !.out = out]
    /\ UNCHANGED <<pc, app, upload, models, doc, env, idx, results, response,
                   initialized, served>>

\* DoclingPipeline._format_table_markdown(table_data) and
\* MinerUPipeline._format_scientific_table(table_data)
FormatTableCall ==
    /\ call.fn \in TableFormatters /\ ~call.done
    /\ Return(IF call.fn = "_format_table_markdown" THEN FormatTableMarkdown(call.arg)
              ELSE FormatScientificTable(call.arg))

\* MinerUPipeline._extract_references(text): the set of references, or the
\* ValueError that leaves it
ExtractReferencesCall ==
    /\ call.fn = "_extract_references" /\ ~call.done
    /\ Return(ExtractReferences(call.arg))

\* SuryaPipeline._estimate_image_bbox(page, xref, pix)
EstimateImageBBoxCall ==
    /\ call.fn = "_estimate_image_bbox" /\ ~call.done
    /\ Return(EstimateImageBBoxScaled(call.arg.page, call.arg.pix))

\* classify_element(font_size, bbox, page_rect) of the production app,
\* DoclingPipeline._classify_block(text, bbox, all_blocks) and
\* _classify_docling_style(text, bbox, page_rect) of the unified app
ClassifyGenericCall ==
    /\ call.fn \in GenericClassifiers /\ ~call.done
    /\ Return(IF call.fn = "classify_element"
              THEN ClassifyElement(call.arg.font_size, call.arg.bbox, call.arg.page_rect)
              ELSE IF call.fn = "_classify_block"
              THEN ClassifyBlock(call.arg.text, call.arg.bbox)
              ELSE ClassifyDoclingStyle(call.arg.text, call.arg.bbox, call.arg.page_rect))

\* MinerUPipeline._classify_scientific_block(text, bbox) and
\* _classify_scientific_style(text) of the unified app
ClassifyScientificCall ==
    /\ call.fn \in ScientificClassifiers /\ ~call.done
    /\ Return(IF call.fn = "_classify_scientific_block"
              THEN ClassifyScientificBlock(call.arg.text, call.arg.bbox)
              ELSE ClassifyScientificStyle(call.arg.text))

\* MinerUPipeline._get_section_type(text)
GetSectionTypeCall ==
    /\ call.fn = "_get_section_type" /\ ~call.done
    /\ Return(GetSectionType(call.arg))

HelperNext ==
    \/ GetSectionTypeCall
    \/ ClassifyScientificCall
    \/ FormatTableCall
    \/ ExtractReferencesCall
    \/ EstimateImageBBoxCall
    \/ ClassifyGenericCall

HelperSpec == HelperInit /\ [][HelperNext]_vars

\* the service handling its requests, or one direct call of a helper
ServiceInit == Idle /\ call \in HelperCalls \cup {NoCall}

HandlerStep == call = NoCall /\ Next

ServiceNext ==
    \/ HandlerStep
    \/ HelperNext

ServiceSpec == ServiceInit /\ [][ServiceNext]_vars

-----------------------------------------------------------------------------
(* Properties.  An entry is a value of the results dict of the request being *)
(* served; the state keeps it until the response is sent.                    *)

Requested == {models[i] : i \in 1..Len(models)}

Entries == {results[m] : m \in DOMAIN results}

\* the models a service recognises
Recognised ==
    IF app = "modal" THEN ModalModels
    ELSE IF app = "unified" THEN AvailableModels
    ELSE IF app = "production" THEN ProductionModels
    ELSE {"pymupdf_advanced", "pymupdf_basic"}

\* an extract request for a stored upload has been answered
Answered == pc = "responded" /\ app \in Apps /\ upload = "stored"

IsFailureResult(e) ==
    /\ HasAttr(e, "success") /\ ~e.success
    /\ e.markdown = <<>> /\ e.elements = <<>>
    /\ e.metadata.total_pages = 0 /\ e.metadata.total_elements = 0
    /\ e.metadata.confidence_avg.num = 0
    /\ HasAttr(e, "error")

\* an entry that reports an extraction (not a converted failure)
Extracted(e) == ~HasAttr(e, "error")

\* the 0-based page an element lies on, and its bbox as a 4-tuple
ElementPage(e) ==
    IF app = "modal" THEN e.bbox.page
    ELSE IF app = "production" THEN e.page
    ELSE e.page - 1

ElementBBox(e) ==
    IF app = "modal" THEN <<e.bbox.x1, e.bbox.y1, e.bbox.x2, e.bbox.y2>> ELSE e.bbox

\* C1: every extract request returns exactly one entry per requested model
\* name, names the service does not recognise and models that failed included;
\* the request as a whole is not failed because of one model.
C1_OneEntryPerRequestedModel ==
    Answered =>
        /\ response.status_code = 200
        /\ DOMAIN response.results = Requested

\* C2: when the extraction of a requested model raises (here: the stored file
\* cannot be opened), the failure becomes that model's result with
\* success=false, empty markdown, no elements, zeroed metadata and the error
\* text, and the exception does not reach the caller of the batch.
C2_FailureBecomesResult ==
    (Answered /\ doc.corrupt) =>
        /\ response.status_code = 200
        /\ \A m \in Requested \cap Recognised :
              /\ m \in DOMAIN response.results
              /\ IsFailureResult(response.results[m])

Version(e) ==
    IF HasAttr(e.metadata, "model_version") THEN e.metadata.model_version ELSE "none"

\* the confidence_avg each extraction path declares for an empty element list
EmptyDefault(e) ==
    IF app = "modal"
    THEN IF Version(e) = "pymupdf_fallback_v1.0" THEN 85
         ELSE IF Version(e) = "docling_v1.0" THEN 95
         ELSE IF Version(e) = "mineru_fallback_v1.0" THEN 88
         ELSE IF Version(e) = "mineru_v1.0" THEN 92
         ELSE IF Version(e) = "pymupdf_ocr_fallback_v1.0" THEN 75
         ELSE IF Version(e) = "surya_v1.0" THEN 90
         ELSE IF Version(e) = "pymupdf_basic_v1.0" THEN 85
         ELSE 87
    ELSE IF app = "unified" THEN 90
    ELSE IF app = "production"
    THEN IF e.model = "docling" THEN 95
         ELSE IF e.model = "surya" THEN 92
         ELSE IF e.model = "mineru" THEN 90
         ELSE 97
    ELSE 0

C4_ConfidenceAvgIsMean ==
    \A e \in Entries :
        e.elements # <<>> =>
            e.metadata.confidence_avg.num * Len(e.elements)
              = SumSeq([i \in 1..Len(e.elements) |-> e.elements[i].confidence])
                  * e.metadata.confidence_avg.den

\* C5: every element confidence and confidence_avg lie in [0,1] (0..100
\* hundredths), on the engine paths and on the fallback paths alike.
C5_ConfidenceInUnitInterval ==
    \A e \in Entries :
        /\ \A i \in 1..Len(e.elements) :
              e.elements[i].confidence >= 0 /\ e.elements[i].confidence <= 100
        /\ e.metadata.confidence_avg.num >= 0
        /\ e.metadata.confidence_avg.num <= 100 * e.metadata.confidence_avg.den

\* the line "## Page k"
HeaderLine(k) == <<"#", "#", " ", "P", "a", "g", "e", " ">> \o IntToStr(k)

\* the positions of string s at which a line equal to h starts
LineStarts(s, h) ==
    {i \in 1..Len(s) :
        /\ i = 1 \/ s[i - 1] = "\n"
        /\ i + Len(h) - 1 <= Len(s)
        /\ SubSeq(s, i, i + Len(h) - 1) = h
        /\ i + Len(h) > Len(s) \/ s[i + Len(h)] = "\n"}

\* the position in the markdown string before the f-th appended piece
FragOffset(md, f) == SumSeq([i \in 1..(f - 1) |-> Len(md[i].text)])

\* C6: for a document of N pages the markdown contains the separators
\* "## Page 1" .. "## Page N", each exactly once and in ascending order, and
\* everything page k contributes lies between the separator of page k and the
\* separator of page k+1.
C6_PageSeparatorsOnceInOrder ==
    \A e \in Entries :
        Extracted(e) =>
            LET md == e.markdown
                s == MarkdownText(md)
                N == Len(doc.pages)
                at == [k \in 1..(N + 1) |-> LineStarts(s, HeaderLine(k))]
            IN /\ \A k \in 1..N : Cardinality(at[k]) = 1
               /\ \A k \in 1..(N - 1) : \A i \in at[k], j \in at[k + 1] : i < j
               /\ \A f \in 1..Len(md) : \A c \in 1..Len(md[f].text) :
                     (md[f].text[c] \notin Whitespace /\ md[f].page < N) =>
                        /\ \E i \in at[md[f].page + 1] : i <= FragOffset(md, f) + c
                        /\ \A i \in at[md[f].page + 2] : FragOffset(md, f) + c < i

\* the result of extracting document d for model m in the service of the
\* request being served
ProcessAs(m, d) ==
    IF app = "modal" THEN ModalProcess(m, d, env, initialized).entry
    ELSE IF app = "unified" THEN UnifiedProcess(m, d)
    ELSE IF app = "production" THEN ProductionProcess(m, d)
    ELSE ExtractTextWithPositions(d, m)

IsTableElement(el) == el.type \in {"table", "table_cell"}
IsImageElement(el) == el.type = "image"
IsTextElement(el) == ~IsTableElement(el) /\ ~IsImageElement(el)

\* d with the tables of every page removed
WithoutTables(d) ==
    [d EXCEPT !.pages = [k \in 1..Len(d.pages) |-> [d.pages[k] EXCEPT !.tables = NoTables]]]

\* d with only the i-th table of page p left, and with only its i-th image left
OnlyTable(d, p, i) ==
    [d EXCEPT !.pages = [k \in 1..Len(d.pages) |->
        [d.pages[k] EXCEPT
            !.tables = IF k = p THEN [raises |-> FALSE, list |-> <<d.pages[p].tables.list[i]>>]
                       ELSE NoTables,
            !.images = NoImages]]]

OnlyImage(d, p, i) ==
    [d EXCEPT !.pages = [k \in 1..Len(d.pages) |->
        [d.pages[k] EXCEPT
            !.tables = NoTables,
            !.images = IF k = p THEN [raises |-> FALSE, list |-> <<d.pages[p].images.list[i]>>]
                       ELSE NoImages]]]

HasTableFailure(d) ==
    \E k \in 1..Len(d.pages) :
        \/ d.pages[k].tables.raises
        \/ \E i \in 1..Len(d.pages[k].tables.list) : TableRaises(d.pages[k].tables.list[i])

\* C8: when table detection or the extraction of a table raises on some page,
\* the result still has every text element of every page (the ones the same
\* document without tables gives) and success=true.
C8_TableFailureKeepsText ==
    \A m \in DOMAIN results :
        (app \in Apps /\ HasTableFailure(doc)) =>
            /\ ~HasAttr(results[m], "error")
            /\ app = "modal" => results[m].success
            /\ SelectSeq(results[m].elements, IsTextElement)
                 = SelectSeq(ProcessAs(m, WithoutTables(doc)).elements, IsTextElement)

\* C9: a failure is isolated per table and per image: every table (image) of a
\* page whose own extraction would give elements still gives them when another
\* table (image) of the page raises, whether it comes before or after it.
C9_FailureIsolatedPerItem ==
    \A m \in DOMAIN results :
        LET els == results[m].elements
            tables == {<<p, i>> \in (1..Len(doc.pages)) \X (1..MaxTables) :
                          i <= Len(doc.pages[p].tables.list)}
            images == {<<p, i>> \in (1..Len(doc.pages)) \X (1..MaxImages) :
                          i <= Len(doc.pages[p].images.list)}
            IsKind(el, kind) == IF kind = "table" THEN IsTableElement(el)
                                ELSE IsImageElement(el)
            Count(elements, kind) ==
                Cardinality({i \in 1..Len(elements) : IsKind(elements[i], kind)})
            max(kind) == IF kind = "table" THEN MaxTables ELSE MaxImages
            items(kind) == IF kind = "table" THEN tables ELSE images
            Only(t, kind) == IF kind = "table" THEN OnlyTable(doc, t[1], t[2])
                             ELSE OnlyImage(doc, t[1], t[2])
        IN \A kind \in {"table", "image"} :
              Count(els, kind)
                >= SumSeq([k \in 1..(Len(doc.pages) * max(kind)) |->
                      LET t == <<((k - 1) \div max(kind)) + 1, ((k - 1) % max(kind)) + 1>>
                      IN IF t \in items(kind)
                         THEN Count(ProcessAs(m, Only(t, kind)).elements, kind)
                         ELSE 0])

EngineVersions == {"docling_v1.0", "surya_v1.0", "mineru_v1.0"}

\* an entry whose elements were read from the pages of the document
FromDocument(e) == Extracted(e) /\ Version(e) \notin EngineVersions

IsSuryaFallback(e) == Version(e) = "pymupdf_ocr_fallback_v1.0"

ElementsOnPage(e, p) == SelectSeq(e.elements, LAMBDA el : ElementPage(el) = p)

\* what the iteration of page p appended to the markdown
PageFragText(e, p) == MarkdownText(SelectSeq(e.markdown, LAMBDA f : f.page = p))

AllPagesEmpty == \A k \in 1..Len(doc.pages) : doc.pages[k] = EmptyPage

-----------------------------------------------------------------------------
(* The element types *)

ElementTypes == {"title", "header", "subheader", "text", "list", "caption", "table",
                 "image", "equation", "citation", "footer"}

\* C11: every element of every result has a type that is one of title, header,
\* subheader, text, list, caption, table, image, equation, citation, footer.
C11_TypeInVocabulary ==
    \A e \in Entries : \A i \in 1..Len(e.elements) : e.elements[i].type \in ElementTypes


-----------------------------------------------------------------------------
(* Table formatting *)

Returned(fns) == call.fn \in fns /\ call.done

\* the data rows of grid g that are as long as its header row
MatchingRows(g) == Cardinality({i \in 2..Len(g) : Len(g[i]) = Len(g[1])})

\* the lines of a text that ends every line with a newline
TextLines(s) == LET pieces == Split(s, "\n") IN SubSeq(pieces, 1, Len(pieces) - 1)

CellCount(line) == Cardinality({i \in 1..Len(line) : line[i] = "|"}) - 1

\* C12: for every cell grid, the empty grid and a grid with an empty header row
\* included, the formatted table has 1 header row, 1 separator row and one row
\* per data row whose length equals the header length.
C12_TableRowCount ==
    Returned(TableFormatters) =>
        Len(TextLines(call.out))
            = 2 + (IF call.arg = <<>> THEN 0 ELSE MatchingRows(call.arg))

\* C12 (amended): a grid that is empty or whose header row is empty formats to
\* the empty string; every other grid formats to 1 header row, 1 separator row
\* and one row per data row whose length equals the header length, each row with
\* as many cells as the header.
C12_TableRowCountUnlessNoHeader ==
    Returned(TableFormatters) =>
        IF call.arg = <<>> \/ call.arg[1] = <<>> THEN call.out = <<>>
        ELSE /\ Len(TextLines(call.out)) = 2 + MatchingRows(call.arg)
             /\ \A i \in 1..Len(TextLines(call.out)) :
                    CellCount(TextLines(call.out)[i]) = Len(call.arg[1])

\* a grid of two columns with a data row of one cell and a data row of two
C12_MismatchedRowDropped ==
    /\ Returned(TableFormatters)
    /\ Len(call.arg) = 3 /\ Len(call.arg[1]) = 2
    /\ Len(call.arg[2]) = 1 /\ Len(call.arg[3]) = 2
    /\ Len(TextLines(call.out)) = 3

-----------------------------------------------------------------------------
(* Images *)

IsSmallImage(img) == img.width < 50 \/ img.height < 50

\* C13: an embedded image smaller than 50x50 pixels never produces an element,
\* and an image of at least 50x50 pixels whose extraction does not raise
\* produces exactly one element of type image: on every page the image elements
\* are as many as the page's images that are not small and do not raise.
C13_SmallImagesDropped ==
    \A e \in Entries :
        FromDocument(e) =>
            \A k \in 1..Len(doc.pages) :
                Len(SelectSeq(ElementsOnPage(e, k - 1), IsImageElement))
                    = Cardinality({i \in 1..Len(doc.pages[k].images.list) :
                          /\ ~doc.pages[k].images.raises
                          /\ ~ImageRaises(doc.pages[k].images.list[i])
                          /\ ~IsSmallImage(doc.pages[k].images.list[i])})

-----------------------------------------------------------------------------
(* Reference extraction *)

\* the brackets of s that hold a numeric list: [ and ] around digits, whitespace,
\* commas and hyphens
NumericLists(s) ==
    {b \in (1..Len(s)) \X (1..Len(s)) :
        /\ b[1] + 1 < b[2] /\ s[b[1]] = "[" /\ s[b[2]] = "]"
        /\ \A k \in (b[1] + 1)..(b[2] - 1) : s[k] \in Digits \cup Whitespace \cup {",", "-"}}

\* the comma-separated tokens of the numeric lists of s, trimmed
Tokens(s) ==
    UNION {{Strip(SubSeq(s, t[1], t[2])) :
               t \in {t \in ((b[1] + 1)..b[2]) \X (b[1]..(b[2] - 1)) :
                        /\ t[1] <= t[2] + 1
                        /\ t[1] = b[1] + 1 \/ s[t[1] - 1] = ","
                        /\ t[2] = b[2] - 1 \/ s[t[2] + 1] = ","
                        /\ \A k \in t[1]..t[2] : s[k] # ","}}
           : b \in NumericLists(s)}

IsNumber(t) == t # <<>> /\ \A k \in 1..Len(t) : t[k] \in Digits

RECURSIVE TenTo(_)
TenTo(n) == IF n = 0 THEN 1 ELSE 10 * TenTo(n - 1)

\* the number a string of digits is the decimal notation of
NumberOf(t) == CHOOSE n \in 0..(TenTo(Len(t)) - 1) : IntToStr(n) = t

\* the numbers a token of the form a-b stands for: (a, b), or none
RangeOf(t) ==
    {<<NumberOf(Strip(SubSeq(t, 1, h - 1))), NumberOf(Strip(SubSeq(t, h + 1, Len(t))))>> :
        h \in {h \in 1..Len(t) :
                 /\ t[h] = "-"
                 /\ IsNumber(Strip(SubSeq(t, 1, h - 1)))
                 /\ IsNumber(Strip(SubSeq(t, h + 1, Len(t))))}}

\* what the tokens of s stand for
ExpectedReferences(s) ==
    {t \in Tokens(s) : \A k \in 1..Len(t) : t[k] # "-"}
    \cup UNION {{IntToStr(n) : n \in r[1]..r[2]} : r \in UNION {RangeOf(t) : t \in Tokens(s)}}

IsLargeBlock(block) ==
    /\ block.haslines
    /\ Strip(BlockTextFlat(block)) # <<>>
    /\ \A i \in 1..Len(BlockSpans(block)) : BlockSpans(block)[i].size > 20

\* the generic profile: the result of the model "docling" of a service
GenericEntries == {results[m] : m \in DOMAIN results \cap {"docling"}}

\* C15: under the generic profile a text block whose font size is greater than
\* 20 yields exactly one element, of type title, and the markdown line "# "
\* followed by the trimmed text of the block (checked on the pages that hold
\* such a block and nothing else).
C15_LargeFontIsTitle ==
    \A e \in GenericEntries :
        FromDocument(e) =>
            \A k \in 1..Len(doc.pages) :
                (/\ Len(doc.pages[k].blocks) = 1
                 /\ IsLargeBlock(doc.pages[k].blocks[1])
                 /\ doc.pages[k].tables = NoTables
                 /\ doc.pages[k].images = NoImages) =>
                    /\ Len(ElementsOnPage(e, k - 1)) = 1
                    /\ ElementsOnPage(e, k - 1)[1].type = "title"
                    /\ LineStarts(PageFragText(e, k - 1),
                                  <<"#", " ">> \o Strip(BlockTextFlat(doc.pages[k].blocks[1])))
                          # {}

\* the sum of the values of a function with a finite domain
RECURSIVE SumOver(_)
SumOver(f) ==
    IF DOMAIN f = {} THEN 0
    ELSE LET t == CHOOSE t \in DOMAIN f : TRUE
         IN f[t] + SumOver([u \in DOMAIN f \ {t} |-> f[u]])

\* C16: in every successful result metadata.by_type maps each element type to
\* the number of elements of that type: every type occurring in elements has a
\* positive entry, no other type has an entry, and the entries sum to
\* total_elements = len(elements).
C16_ByTypeCountsElements ==
    \A e \in Entries :
        Extracted(e) =>
            /\ HasAttr(e.metadata, "by_type")
            /\ DOMAIN e.metadata.by_type = {e.elements[i].type : i \in 1..Len(e.elements)}
            /\ \A t \in DOMAIN e.metadata.by_type :
                  /\ e.metadata.by_type[t] > 0
                  /\ e.metadata.by_type[t]
                        = Cardinality({i \in 1..Len(e.elements) : e.elements[i].type = t})
            /\ e.metadata.total_elements = Len(e.elements)
            /\ SumOver(e.metadata.by_type) = e.metadata.total_elements

\* the box <<x1, y1, x2, y2>> lies inside the rectangle [0, w] x [0, h]
Inside(box, w, h) ==
    /\ 0 <= box[1] /\ box[1] <= box[3] /\ box[3] <= w
    /\ 0 <= box[2] /\ box[2] <= box[4] /\ box[4] <= h

ElementInsidePage(el) ==
    Inside(ElementBBox(el), doc.pages[ElementPage(el) + 1].width,
           doc.pages[ElementPage(el) + 1].height)

\* the estimated box of a returned _estimate_image_bbox call, in twentieths of
\* a point: as wide as the pixmap but at most 80% of the page width, as high as
\* the pixmap but at most 60% of the page height, horizontally centred,
\* starting at 30% of the page height, and inside the page
EstimateAsSpecified ==
    Returned({"_estimate_image_bbox"}) =>
        LET box == call.out
            pw == Scale * call.arg.page.width
            ph == Scale * call.arg.page.height
            iw == Scale * call.arg.pix.width
            ih == Scale * call.arg.pix.height
        IN /\ 10 * (box[3] - box[1]) = IF 10 * iw <= 8 * pw THEN 10 * iw ELSE 8 * pw
           /\ 10 * (box[4] - box[2]) = IF 10 * ih <= 6 * ph THEN 10 * ih ELSE 6 * ph
           /\ box[1] = pw - box[3]
           /\ 10 * box[2] = 3 * ph
           /\ Inside(box, pw, ph)

IsPlaceholderBox(el) ==
    \/ /\ app = "modal"
       /\ el.id = "page_" \o ToString(ElementPage(el)) \o "_scanned"
       /\ ElementBBox(el) = <<0, 0, 612, 792>>
    \/ /\ app = "production"
       /\ el.type = "image"
       /\ ElementBBox(el) = <<0, 0, el.width, el.height>>

ScientificEntries == {results[m] : m \in DOMAIN results \cap {"mineru"}}

\* C18: in every scientific-profile result an element has a latex field if and
\* only if its type is equation, a references field if and only if its type is
\* citation, and a section_type field if and only if its type is header and
\* its text is a recognised academic section; a block with the text "[12]"
\* becomes a citation with the references ["12"].
C18_ScientificFields ==
    \A e \in ScientificEntries :
        Extracted(e) =>
            \A i \in 1..Len(e.elements) :
                LET el == e.elements[i]
                IN /\ HasAttr(el, "latex") <=> el.type = "equation"
                   /\ HasAttr(el, "references") <=> el.type = "citation"
                   /\ HasAttr(el, "section_type")
                         <=> (el.type = "header" /\ IsAcademicSection(el.content))
                   /\ el.content = T_Cite =>
                         /\ el.type = "citation"
                         /\ HasAttr(el, "references")
                         /\ el.references = {<<"1", "2">>}

\* C19: when no explicit reading-order signal from a layout engine is present,
\* the elements contributed by one page (text blocks, tables, images) appear in
\* the element list in top-to-bottom order, i.e. in non-decreasing bbox.y1.
C19_TopToBottomOrder ==
    \A e \in Entries :
        FromDocument(e) =>
            \A k \in 1..Len(doc.pages) :
                LET on_page == ElementsOnPage(e, k - 1)
                IN \A i \in 1..(Len(on_page) - 1) :
                      ElementBBox(on_page[i])[2] <= ElementBBox(on_page[i + 1])[2]

\* the flags of the pipeline singletons of a process that has served no call
FreshPipelines == [docling |-> FALSE, surya |-> FALSE, mineru |-> FALSE]

\* the entry a process that has served no call stores for model m of the
\* request being served
FreshEntry(m) ==
    IF app = "modal" THEN ModalProcess(m, doc, env, FreshPipelines).entry
    ELSE ProcessAs(m, doc)

PageField(el) == IF app = "modal" THEN el.bbox.page ELSE el.page

\* C21: every page number visible in a result is 1-indexed: the page with
\* internal index k has the separator "## Page k+1", and the page field of
\* every element is the internal index of its page plus one, so it lies in
\* 1..N for a document of N pages.
C21_PageNumbersOneIndexed ==
    \A e \in Entries :
        FromDocument(e) =>
            /\ \A k \in 1..Len(doc.pages) :
                  LineStarts(MarkdownText(e.markdown), HeaderLine(k)) # {}
            /\ \A i \in 1..Len(e.elements) :
                  PageField(e.elements[i]) \in 1..Len(doc.pages)

\* the type the listed rules of the generic profile give, first match first;
\* top is the bound of rule 4 on bbox.y1 (20% of the page height, or 200pt)
ListedGenericType(a, top) ==
    LET text_lower == Strip(Lower(a.text))
        y1 == a.bbox[2]
        height == a.page_rect.height
    IN IF a.font_size > 20 THEN "title"
       ELSE IF a.font_size > 16 THEN "header"
       ELSE IF a.font_size > 14 THEN "subheader"
       ELSE IF Len(text_lower) < 100 /\ y1 < top THEN "title"
       ELSE IF \E w \in UnifiedHeaderWords : StartsWith(text_lower, w) THEN "header"
       ELSE IF \E p \in UnifiedListPrefixes : StartsWith(text_lower, p) THEN "list"
       ELSE IF 10 * y1 < height THEN "header"
       ELSE IF 10 * y1 > 9 * height THEN "footer"
       ELSE "text"

\* C22: the generic classifier returns the type of the first matching rule in
\* the listed order: font size > 20 title, > 16 header, > 14 subheader, then
\* the position, keyword and list rules, then header in the top 10% of the
\* page, footer in the bottom 10%, text by default.
C22_GenericFirstMatch ==
    Returned(GenericClassifiers) =>
        call.out \in {ListedGenericType(call.arg, 200),
                      ListedGenericType(call.arg, (2 * call.arg.page_rect.height) \div 10)}

\* the type the listed rules of the scientific profile give, first match first
ListedScientificType(a) ==
    LET text_lower == Strip(Lower(a.text))
    IN IF ContainsFormula(a.text) THEN "equation"
       ELSE IF ContainsCitation(a.text) THEN "citation"
       ELSE IF IsAcademicSection(a.text) THEN "header"
       ELSE IF \E p \in MinerUCaptionPrefixes : StartsWith(text_lower, p) THEN "caption"
       ELSE IF Len(text_lower) < 100 /\ a.bbox[2] < 150 THEN "title"
       ELSE "text"

\* C23: the scientific classifier returns the type of the first matching rule
\* in the order formula, citation, academic section, caption keyword at the
\* start of the text, short text above 150pt, text; in particular a block is
\* a caption only if its text starts with fig, figure, table or chart.
C23_ScientificFirstMatch ==
    Returned(ScientificClassifiers) =>
        /\ call.out = ListedScientificType(call.arg)
        /\ call.out = "caption" =>
              \E p \in MinerUCaptionPrefixes : StartsWith(Strip(Lower(call.arg.text)), p)

\* C24: classifying a block and attaching its auxiliary fields never raises:
\* _extract_references returns a list for every text that matches the citation
\* pattern, and a document that can be opened and read yields a scientific
\* result with its elements, never a failure result.
C24_ClassificationNeverRaises ==
    /\ Returned({"_extract_references"}) => ~Raised(call.out)
    /\ \A e \in ScientificEntries :
          (app = "modal" /\ ~doc.corrupt /\ ~env.rejectsClosed) => Extracted(e)

\* the normalized tag of each keyword of the academic-section vocabulary, in
\* the order of the vocabulary
ListedSectionTags ==
    <<"abstract", "introduction", "methods", "methods", "results", "discussion",
      "conclusion", "acknowledgments", "references", "references", "appendix",
      "related work", "background", "literature review", "experimental setup",
      "evaluation", "future work", "limitations">>

ListedSectionType(text) ==
    LET text_lower == Strip(Lower(text))
        hits == {i \in 1..Len(AcademicSections) : Contains(text_lower, AcademicSections[i])}
    IN IF hits = {} THEN "other"
       ELSE ListedSectionTags[CHOOSE i \in hits : \A j \in hits : i <= j]

\* C25: sectionType maps a text to the normalized tag of the first vocabulary
\* keyword it contains: methodology and methods give methods, bibliography
\* gives references, every other keyword of the vocabulary gives itself, and
\* only a text containing no vocabulary keyword gives other.
C25_SectionTypeOfVocabulary ==
    Returned({"_get_section_type"}) => call.out = ListedSectionType(call.arg)

PipelineNames == {"docling", "surya", "mineru"}

\* the real engine of pipeline m raises on the document of the request
EngineRaises(m) ==
    IF m = "docling" THEN env.docling.raises \/ doc.corrupt
    ELSE IF m = "surya" THEN env.surya.raises \/ doc.corrupt
    ELSE FALSE

\* C26: a pipeline's extract call never raises to its caller and returns one
\* result for every outcome of initialize and of the engine: the engine's
\* result when the pipeline is initialized and the engine did not raise,
\* otherwise the fallback's; initialize is attempted on each call while the
\* pipeline is not initialized, and a flag that is set is never cleared.
C26_ExtractReturnsOneResult ==
    [][\A m \in PipelineNames :
          /\ initialized[m] => initialized'[m]
          /\ (/\ pc = "loop" /\ app = "modal" /\ idx' = idx + 1
              /\ idx <= Len(models) /\ models[idx] = m) =>
                /\ initialized'[m] = (initialized[m] \/ env.importOk)
                /\ m \in DOMAIN results'
                /\ HasAttr(results'[m].metadata, "by_type")
                /\ Version(results'[m]) \in EngineVersions
                      <=> (initialized'[m] /\ ~EngineRaises(m))]_vars

\* the Docling engine was loaded and raised on the document: the call was
\* answered with the fallback's result
C26_EngineRaisedFallbackAnswered ==
    /\ app = "modal" /\ "docling" \in DOMAIN results
    /\ initialized.docling /\ env.docling.raises /\ ~doc.corrupt
    /\ Version(results["docling"]) = "pymupdf_fallback_v1.0"

\* the environment of the request with a document handle that tolerates use
\* after close
TolerantEnv == [env EXCEPT !.rejectsClosed = FALSE]

\* C27: the document handle is used only between open and close: nothing is
\* asked of it after doc.close(), so every stored entry is the one the same
\* call stores with a handle that tolerates use after close, and a handle
\* that rejects it never turns a completed extraction into a failure.
C27_HandleUnusedAfterClose ==
    \A m \in DOMAIN results :
        (app = "modal" /\ m \in Recognised) =>
            /\ results[m] = ModalProcess(m, doc, TolerantEnv, initialized).entry
            /\ (~doc.corrupt /\ m \in PipelineNames) => Extracted(results[m])

IsScannedElement(el, p) == el.id = "page_" \o ToString(p) \o "_scanned"

\* C28: in the Surya fallback, the placeholder page_{n}_scanned (confidence
\* 0.50) is added only for a page with fewer than 50 characters of text that
\* yielded no text-block element and no image element, and at most once per
\* page: where it is present it is the only element of its page.
C28_PlaceholderOnlyForBarePage ==
    \A e \in Entries :
        (app = "modal" /\ IsSuryaFallback(e)) =>
            \A k \in 1..Len(doc.pages) :
                LET Checked(els) ==
                       LET marks == SelectSeq(els, LAMBDA el : IsScannedElement(el, k - 1))
                       IN /\ Len(marks) <= 1
                          /\ marks # <<>> =>
                                /\ IsScannedPage(doc.pages[k])
                                /\ marks[1].confidence = 50
                                /\ marks[1].content = T_ScannedContent
                                /\ Len(els) = 1
                IN Checked(ElementsOnPage(e, k - 1))

IsLineElement(el) == ~HasAttr(el, "layout_type")

\* C29: on the Surya engine path with a reading-order result, every OCR text
\* line with non-empty text yields exactly one element on every page: no line
\* is emitted twice and none is lost, so the line elements of a page that
\* carry a line's box and text are as many as the text lines that have them.
C29_EachLineOnce ==
    \A e \in Entries :
        (/\ app = "modal" /\ Version(e) = "surya_v1.0"
         /\ env.surya.order # None /\ HasAttr(env.surya.order, "bboxes")) =>
            \A k \in 1..Len(doc.pages) :
                LET lines == env.surya.text_lines
                    Checked(els) ==
                        \A j \in 1..Len(lines) :
                            Strip(lines[j].text) # <<>> =>
                                Cardinality({i \in 1..Len(els) :
                                               /\ IsLineElement(els[i])
                                               /\ ElementBBox(els[i]) = lines[j].bbox
                                               /\ els[i].content = Strip(lines[j].text)})
                                  = Cardinality({i \in 1..Len(lines) :
                                                   /\ lines[i].bbox = lines[j].bbox
                                                   /\ Strip(lines[i].text) = Strip(lines[j].text)})
                IN Checked(ElementsOnPage(e, k - 1))

\* C30: a client error raised in an extract handler as HTTPException 400
\* (missing upload id, model not available) or 404 (file not found) reaches
\* the client with that status: the response that carries its detail is never
\* a 500.
C30_ClientErrorKeepsStatus ==
    (pc = "responded" /\ app \in Apps /\ HasAttr(response, "detail")) =>
        /\ response.detail = "Upload ID required" => response.status_code = 400
        /\ response.detail = "File not found" => response.status_code = 404
        /\ response.detail = "Model not available" => response.status_code = 400

====
